---- MODULE Spec2Model ----
(***************************************************************************)
(* A model of rap_importer_plugin: the StabilityCheckHandler of            *)
(* watcher.py, the PipelineManager of pipeline.py, the startup backlog     *)
(* thread of main.py and the retry action of menubar.py, for one watcher.  *)
(*                                                                         *)
(* Strings that the code matches with fnmatch are sequences of one-        *)
(* character strings, so that lower-casing and glob matching are computed. *)
(***************************************************************************)
EXTENDS Integers, Sequences, FiniteSets, TLC

(***************************************************************************)
(* Bounds of the model.                                                    *)
(***************************************************************************)
\* stability-check threads that can be alive at once (thread identities)
MaxChecks == 2
\* file sizes range over 0..MaxSize; a write grows the file by one
MaxSize == 2
\* stability_timeout_seconds, counted in units of stability_check_seconds
StabilityTimeout == 2
\* pipeline.retry_count of the modelled configuration
RetryCount == 2

(***************************************************************************)
(* Strings.                                                                *)
(***************************************************************************)
\* str.lower() on one character, for the letters the model uses
LowerChar(c) ==
    CASE c = "A" -> "a"
      [] c = "B" -> "b"
      [] c = "C" -> "c"
      [] c = "D" -> "d"
      [] c = "P" -> "p"
      [] c = "T" -> "t"
      [] OTHER -> c

\* str.lower()
Lower(s) == [i \in 1..Len(s) |-> LowerChar(s[i])]

\* fnmatch.fnmatch(name, pat) on a POSIX host (no case normalisation):
\* '*' matches any run of characters ('/' included), '?' any one character,
\* every other character itself.  The patterns of the model hold no '['.
RECURSIVE GlobFrom(_, _, _, _)
GlobFrom(s, i, pat, j) ==
    IF j > Len(pat) THEN i > Len(s)
    ELSE IF pat[j] = "*"
         THEN GlobFrom(s, i, pat, j + 1)
              \/ (i <= Len(s) /\ GlobFrom(s, i + 1, pat, j))
    ELSE IF pat[j] = "?"
         THEN i <= Len(s) /\ GlobFrom(s, i + 1, pat, j + 1)
    ELSE i <= Len(s) /\ s[i] = pat[j] /\ GlobFrom(s, i + 1, pat, j + 1)

FnMatch(s, pat) == GlobFrom(s, 1, pat, 1)

\* Path.name: the part after the last '/'
RECURSIVE LastSlash(_, _)
LastSlash(s, i) ==
    IF i = 0 THEN 0 ELSE IF s[i] = "/" THEN i ELSE LastSlash(s, i - 1)

FileName(p) == SubSeq(p, LastSlash(p, Len(p)) + 1, Len(p))

(***************************************************************************)
(* The configuration of the modelled watcher.                              *)
(***************************************************************************)
\* relative paths (to base_folder) of the files of the model
PathA == <<"d", "/", "a", ".", "P">>
PathB == <<"B", ".", "p">>
PathC == <<"c", ".", "t">>
PathD == <<"t", "m", "p", "/", "D", ".", "p">>
PathE == <<"e", ".", "p">>
PathN == <<"n", "/", "n", ".", "p">>
\* where _archive_file moves e.p to, when the archive holds no e.p yet
PathR == <<"_", "A", "r", "c", "h", "i", "v", "e", "d", "/", "e", ".", "p">>

Paths == {PathA, PathB, PathC, PathD, PathE, PathN, PathR}

\* watch.file_patterns and watch.ignore_patterns
FilePatterns == << <<"*", ".", "P">>, <<"c", "?", "x">> >>
IgnorePatterns == << <<"B", "*">>, <<"*", ".", "t", "m", "p">> >>

\* the watcher's global_exclude_paths as configured by the user
UserGlobalExcludes == << <<"t", "m", "p", "/", "*">> >>

\* pipeline.scripts, in configured order
Scripts == <<
    [name |-> "s1", type |-> "command", enabled |-> TRUE,
     include_paths |-> << >>, exclude_paths |-> << <<"n", "/", "*">> >>],
    [name |-> "off", type |-> "python", enabled |-> FALSE,
     include_paths |-> << >>, exclude_paths |-> << >>],
    [name |-> "s2", type |-> "applescript", enabled |-> TRUE,
     include_paths |-> << <<"d", "/", "*">> >>,
     exclude_paths |-> << <<"*", ".", "t">> >>] >>

\* the names _get_unique_archive_path can return for one file name:
\* the plain name and the suffixes -000 .. -999
ArchiveNames == 1001

\* "not file_path.exists()": the file has not been created yet / is gone
NotYet == -2
Gone == -1

\* a path with no key in the _failed_files dict
NoEntry == -1

VARIABLES
    world,              \* what the surroundings of the program do (fixed)
    fsize,              \* the watch folder: path -> size, NotYet or Gone
    observing,          \* FileWatcher._observer is not None
    disp,               \* the observer thread dispatching one event
    pending,            \* StabilityCheckHandler._pending, pairs <<path, thread>>
    chk,                \* the stability-check threads
    pf,                 \* the process_file call of each calling thread
    failed_files,       \* PipelineManager._failed_files: path -> count or NoEntry
    files_processed,    \* PipelineManager._files_processed
    active_processing,  \* PipelineManager._active_processing
    archived,           \* names taken in _Archived for each path's file name
    backlog,            \* the process_existing thread
    retry,              \* the menu bar's Retry item and its do_retry thread
    once,               \* run_once: the main thread of the one-shot mode
    probe,              \* a call of a function of its arguments alone
    lockfile,           \* LOCK_FILE: the directory entry and the files behind it
    procs,              \* the processes that call acquire_lock
    shut,               \* run_foreground: shutdown_requested and handle_signal
    heap,               \* the objects of main's watcher_instances, by watcher
    arch                \* one file name, its archive directory and _archive_file

vars == <<world, fsize, observing, disp, pending, chk, pf, failed_files,
          files_processed, active_processing, archived, backlog, retry,
          once, probe, lockfile, procs, shut, heap, arch>>

\* the state that the watcher and the pipeline of one process never touch
others == <<probe, lockfile, procs, shut, heap, arch>>

(***************************************************************************)
(* Threads.  1..MaxChecks are stability-check threads; the startup backlog *)
(* thread and the do_retry thread call process_file too, and so does the   *)
(* main thread in the one-shot mode.                                       *)
(***************************************************************************)
CheckThreads == 1..MaxChecks
BacklogThread == MaxChecks + 1
RetryThread == MaxChecks + 2
OnceThread == MaxChecks + 3
Callers == CheckThreads \cup {BacklogThread, RetryThread, OnceThread}

NoPath == << >>

Exists(p) == fsize[p] >= 0

IsPending(p) == \E t \in CheckThreads : <<p, t>> \in pending

\* run_once has not been entered (the program runs in the foreground mode)
OnceOff == [pc |-> "off", files |-> {}, todo |-> << >>, total |-> 0,
            success_count |-> 0, code |-> -1]

\* no function is being probed
NoProbe == [fn |-> "none"]

\* run_foreground, line 382: shutdown_requested = False, and no signal yet
NoShutdown == [requested |-> FALSE, pc |-> "run", signals |-> 0, sequences |-> 0,
               stops |-> 0, ignored |-> 0]

FreeCheck == [st |-> "free", path |-> NoPath, last_size |-> -1, elapsed |-> 0,
              exit |-> "none", calls |-> 0, hist |-> << >>]

IdleCall == [pc |-> "idle", path |-> NoPath, idx |-> 0, cur |-> 0, ret |-> "none",
             ran |-> << >>, fault |-> "none"]

(***************************************************************************)
(* watcher.py: StabilityCheckHandler                                       *)
(***************************************************************************)
\* _matches_patterns with the ignore check dropped
MatchesPatternsNoIgnore(p) ==
    \E i \in 1..Len(FilePatterns) :
        FnMatch(Lower(FileName(p)), Lower(FilePatterns[i]))

\* _matches_patterns for a handler whose config holds these patterns:
\* ignore patterns first, then include patterns
MatchesPatternsFor(file_patterns, ignore_patterns, file_path) ==
    LET filename_lower == Lower(FileName(file_path))
    IN  IF \E i \in 1..Len(ignore_patterns) :
               FnMatch(filename_lower, Lower(ignore_patterns[i]))
        THEN FALSE
        ELSE \E i \in 1..Len(file_patterns) :
               FnMatch(filename_lower, Lower(file_patterns[i]))

\* _matches_patterns of the watcher's handler
MatchesPatterns(p) == MatchesPatternsFor(FilePatterns, IgnorePatterns, p)

\* the paths of the model that _matches_patterns accepts
Matching == {p \in Paths : MatchesPatterns(p)}

\* on_created: the event goes straight to _handle_file
OnCreated(p) ==
    /\ observing
    /\ disp.pc = "idle"
    /\ p \in world.events
    /\ disp' = [pc |-> "handle", path |-> p]
    /\ UNCHANGED <<others, world, fsize, observing, pending, chk, pf, failed_files,
                   files_processed, active_processing, archived, backlog, once,
                   retry>>

\* on_modified: returns when the path is pending, else goes to _handle_file
OnModified(p) ==
    /\ observing
    /\ disp.pc = "idle"
    /\ p \in world.events
    /\ disp' = IF IsPending(p) THEN disp ELSE [pc |-> "handle", path |-> p]
    /\ UNCHANGED <<others, world, fsize, observing, pending, chk, pf, failed_files,
                   files_processed, active_processing, archived, backlog, once,
                   retry>>

\* the thread identity a new threading.Thread gets
NewThread == CHOOSE t \in CheckThreads :
                /\ chk[t].st = "free"
                /\ \A u \in CheckThreads : chk[u].st = "free" => t <= u

\* _handle_file that starts a check whether or not the path is pending
StartsCheckAlways(p) == MatchesPatterns(p)

\* _handle_file: a check is started for a matching path that is not pending
StartsCheck(p) == p \in Matching /\ ~IsPending(p)

HandleFile ==
    /\ disp.pc = "handle"
    /\ disp' = [pc |-> "idle", path |-> NoPath]
    /\ IF StartsCheck(disp.path)
       THEN /\ \E t \in CheckThreads : chk[t].st = "free"
            /\ pending' = {e \in pending : e[1] # disp.path}
                              \cup {<<disp.path, NewThread>>}
            /\ chk' = [chk EXCEPT ![NewThread] =
                          [FreeCheck EXCEPT !.st = "poll", !.path = disp.path]]
       ELSE UNCHANGED <<pending, chk>>
    /\ UNCHANGED <<others, world, fsize, observing, pf, failed_files, files_processed,
                   active_processing, archived, backlog, once, retry>>

\* time.sleep(stability_check_seconds) between two samples, in its own units
CheckSeconds == 1

\* line 151 without the comparison with the sample before
StableIgnoringLast(current_size, last_size) == current_size > 0

\* line 151 without the "non-zero" test
StableAnySize(current_size, last_size) == current_size = last_size

\* line 151: the same size twice, and non-zero
Stable(current_size, last_size) ==
    current_size = last_size /\ current_size > 0

\* every exit of the loop falls through to the callback
ExitToCallback(reason) == "call"

\* a return inside the loop that only starts the next turn
ExitToLoop(reason) == IF reason = "stable" THEN "call" ELSE "poll"

\* where an exit of the loop goes: break (stable) reaches the callback;
\* return (timeout, file gone, stat error) goes to the finally clause
ExitTo(reason) == IF reason = "stable" THEN "call" ELSE "pop"

\* a loop that takes the path out of _pending as it goes
PendingAfterPollCleared(t) == {e \in pending : e[1] # chk[t].path}

\* the loop and its exits leave _pending alone: the path is removed in the
\* finally clause, which comes after the callback (lines 160-170)
PendingAfterPoll(t) == pending

\* _check_stability: one turn of the loop, lines 129-158
Poll(t) ==
    LET c == chk[t]
        size == fsize[c.path]
        leave(reason) ==
            chk' = [chk EXCEPT ![t].st = ExitTo(reason), ![t].exit = reason]
    IN  /\ c.st = "poll"
        /\ IF c.elapsed > StabilityTimeout THEN leave("timeout")
           ELSE IF ~Exists(c.path) THEN leave("gone")
           ELSE \/ leave("staterr")
                \/ IF Stable(size, c.last_size)
                   THEN chk' = [chk EXCEPT ![t].st = ExitTo("stable"),
                                           ![t].exit = "stable",
                                           ![t].hist = Append(@, size)]
                   ELSE chk' = [chk EXCEPT ![t].last_size = size,
                                           ![t].elapsed = @ + CheckSeconds,
                                           ![t].hist = Append(@, size)]
        /\ pending' = PendingAfterPoll(t)
        /\ UNCHANGED <<others, world, fsize, observing, disp, pf, failed_files,
                       files_processed, active_processing, archived, backlog, once,
                       retry>>

\* a finally clause that forgets to remove the path
PendingAfterLeak(t) == pending

\* _check_stability's finally clause: self._pending.pop(str(file_path), None)
PendingAfterPop(t) == {e \in pending : e[1] # chk[t].path}

Pop(t) ==
    /\ chk[t].st = "pop"
    /\ pending' = PendingAfterPop(t)
    /\ chk' = [chk EXCEPT ![t] = FreeCheck]
    /\ pf' = [pf EXCEPT ![t] = IdleCall]
    /\ UNCHANGED <<others, world, fsize, observing, disp, failed_files, files_processed,
                   active_processing, archived, backlog, once, retry>>

(***************************************************************************)
(* executor.py: FileVariables.from_file.  Paths are strings; pathlib       *)
(* splits them at "/" (the paths of the model are normalised: no empty     *)
(* segment, no "." or "..").                                               *)
(***************************************************************************)
\* the segments of s from position i on; cur is the segment being read
RECURSIVE SplitFrom(_, _, _)
SplitFrom(s, i, cur) ==
    IF i > Len(s) THEN <<cur>>
    ELSE IF s[i] = "/" THEN <<cur>> \o SplitFrom(s, i + 1, << >>)
    ELSE SplitFrom(s, i + 1, Append(cur, s[i]))

\* PurePath.parts: the root of an absolute path is a part of its own
PathParts(s) ==
    IF s = << >> THEN << >>
    ELSE IF s[1] = "/" THEN << <<"/">> >> \o SplitFrom(s, 2, << >>)
    ELSE SplitFrom(s, 1, << >>)

\* sep.join(parts)
RECURSIVE Join(_, _)
Join(sep, parts) ==
    IF parts = << >> THEN << >>
    ELSE IF Len(parts) = 1 THEN parts[1]
    ELSE parts[1] \o sep \o Join(sep, Tail(parts))

\* file_path.relative_to(base_folder), lines 71-75: the path below the base
\* folder; a path that is not below it is kept whole (ValueError)
RelativeTo(file_path, base_folder) ==
    LET n == Len(base_folder) IN
    IF Len(file_path) > n + 1 /\ SubSeq(file_path, 1, n) = base_folder
                               /\ file_path[n + 1] = "/"
    THEN SubSeq(file_path, n + 2, Len(file_path))
    ELSE file_path

\* process_file, lines 158-162: the relative path of the global-exclude
\* check; the name of the file when it is not below the base folder
ProcessFileRelativePath(file_path, base_folder) ==
    LET n == Len(base_folder) IN
    IF Len(file_path) > n + 1 /\ SubSeq(file_path, 1, n) = base_folder
                               /\ file_path[n + 1] = "/"
    THEN SubSeq(file_path, n + 2, Len(file_path))
    ELSE FileName(file_path)

\* from_file with a group path that runs to the end of the path
FromFileGroupToEnd(file_path, base_folder) ==
    LET relative == RelativeTo(file_path, base_folder)
        parts == PathParts(relative)
    IN  [file_path |-> file_path,
         relative_path |-> relative,
         filename |-> FileName(relative),
         database |-> IF Len(parts) >= 2 THEN parts[1] ELSE << >>,
         group_path |-> IF Len(parts) > 2
                        THEN Join(<<"/">>, SubSeq(parts, 2, Len(parts)))
                        ELSE << >>,
         base_folder |-> base_folder]

\* FileVariables.from_file, lines 70-100
FromFile(file_path, base_folder) ==
    LET relative == RelativeTo(file_path, base_folder)
        parts == PathParts(relative)
    IN  [file_path |-> file_path,
         relative_path |-> relative,
         filename |-> FileName(relative),
         database |-> IF Len(parts) >= 2 THEN parts[1] ELSE << >>,
         group_path |-> IF Len(parts) > 2
                        THEN Join(<<"/">>, SubSeq(parts, 2, Len(parts) - 1))
                        ELSE << >>,
         base_folder |-> base_folder]

(***************************************************************************)
(* executor.py: ScriptExecutor.execute.  What is wrong with a script or    *)
(* with its run is given as a fault; the result is a successful            *)
(* ExecutionResult, a failed one, or an exception that leaves execute.     *)
(***************************************************************************)
\* script.type values with a branch in execute
ScriptTypes == {"command", "applescript", "python"}

\* "none": the script runs and exits with 0
Faults == {"none", "unknown_variable", "parse_error", "cwd_missing",
           "script_missing", "timeout", "nonzero"}

\* a script runs and exits with 0 or with another code
PlainFaults == {"none", "nonzero"}

\* _run_subprocess: TimeoutExpired is caught, a return code other than 0
\* gives a failed result, and "except Exception" catches the
\* FileNotFoundError of a command that does not exist
RunSubprocess(fault) ==
    IF fault \in {"timeout", "nonzero", "script_missing"} THEN "failed"
    ELSE "success"

\* _execute_command: shlex.split's ValueError and a cwd that is no directory
\* give a failed result before anything is run
ExecuteCommand(fault) ==
    IF fault = "parse_error" THEN "failed"
    ELSE IF fault = "cwd_missing" THEN "failed"
    ELSE RunSubprocess(fault)

\* execute without the "except ValueError" around the substitution
ExecuteUncaught(type, fault) ==
    IF fault = "unknown_variable" THEN "raised"
    ELSE IF type = "command" THEN ExecuteCommand(fault)
    ELSE IF fault = "script_missing" THEN "failed"
    ELSE RunSubprocess(fault)

\* execute, lines 184-226: the substitution's ValueError is caught; a
\* command goes to _execute_command; for the other types the script file
\* must exist, and the command string and cwd play no part
Execute(type, fault) ==
    IF fault = "unknown_variable" THEN "failed"
    ELSE IF type = "command" THEN ExecuteCommand(fault)
    ELSE IF fault = "script_missing" THEN "failed"
    ELSE IF type \in {"applescript", "python"}
         THEN RunSubprocess(IF fault \in {"parse_error", "cwd_missing"}
                            THEN "none" ELSE fault)
    ELSE "failed"

(***************************************************************************)
(* pipeline.py: PipelineManager                                            *)
(***************************************************************************)
ArchivedPattern == <<"_", "A", "r", "c", "h", "i", "v", "e", "d", "/", "*">>

\* "x in l" for a list l
Contains(l, x) == \E i \in 1..Len(l) : l[i] = x

\* __init__ that keeps the caller's list object instead of copying it
\* (given: the argument is a list and not None)
NewPipelineManagerAliased(given, global_exclude_paths) ==
    LET own == IF given THEN global_exclude_paths ELSE << >>
        paths == IF Contains(own, ArchivedPattern) THEN own
                 ELSE Append(own, ArchivedPattern)
    IN  [global_exclude_paths |-> paths,
         argument |-> IF given /\ global_exclude_paths # << >> THEN paths
                      ELSE global_exclude_paths]

\* __init__, lines 51-53: self.global_exclude_paths is a new list holding the
\* caller's patterns, to which "_Archived/*" is appended if it is not in it;
\* argument is the caller's list as it is after the call
NewPipelineManager(given, global_exclude_paths) ==
    LET own == IF given THEN global_exclude_paths ELSE << >>
    IN  [global_exclude_paths |-> IF Contains(own, ArchivedPattern) THEN own
                                  ELSE Append(own, ArchivedPattern),
         argument |-> global_exclude_paths]

\* the patterns of the configuration, as they are
GlobalExcludePathsAsConfigured == UserGlobalExcludes

\* the global_exclude_paths of the watcher's pipeline
GlobalExcludePaths ==
    NewPipelineManager(TRUE, UserGlobalExcludes).global_exclude_paths

\* _is_globally_excluded that knows the _Archived folder only
IsGloballyExcludedArchivedOnly(relative_path) ==
    FnMatch(relative_path, ArchivedPattern)

\* _is_globally_excluded
IsGloballyExcluded(relative_path) ==
    \E i \in 1..Len(GlobalExcludePaths) :
        FnMatch(relative_path, GlobalExcludePaths[i])

\* _is_globally_excluded of the PipelineManager that main builds for a
\* watcher configuration with the given global_exclude_paths
SkipsAsGloballyExcluded(global_exclude_paths, relative_path) ==
    LET patterns == NewPipelineManager(TRUE, global_exclude_paths).global_exclude_paths
    IN  \E i \in 1..Len(patterns) : FnMatch(relative_path, patterns[i])

\* _should_run_script with the include patterns checked before the excludes
ShouldRunScriptIncludeFirst(script, relative_path) ==
    IF script.include_paths = << >> /\ script.exclude_paths = << >> THEN TRUE
    ELSE IF \E i \in 1..Len(script.include_paths) :
                FnMatch(relative_path, script.include_paths[i]) THEN TRUE
    ELSE IF script.include_paths # << >> THEN FALSE
    ELSE ~\E i \in 1..Len(script.exclude_paths) :
                FnMatch(relative_path, script.exclude_paths[i])

\* _should_run_script
ShouldRunScript(script, relative_path) ==
    IF script.include_paths = << >> /\ script.exclude_paths = << >> THEN TRUE
    ELSE IF \E i \in 1..Len(script.exclude_paths) :
                FnMatch(relative_path, script.exclude_paths[i]) THEN FALSE
    ELSE IF script.include_paths = << >> THEN TRUE
    ELSE \E i \in 1..Len(script.include_paths) :
                FnMatch(relative_path, script.include_paths[i])

\* PipelineConfig.enabled_scripts
EnabledScripts == SelectSeq(Scripts, LAMBDA sc : sc.enabled)

\* lines 204-207 without the path filters
FilteredScriptsAllEnabled(relative_path) == EnabledScripts

\* _do_process_file, lines 204-207: the scripts run for a file
FilteredScripts(relative_path) ==
    SelectSeq(EnabledScripts, LAMBDA sc : ShouldRunScript(sc, relative_path))

\* the scripts run for each file of the model (the list of lines 204-207,
\* computed once per path)
ScriptsFor == [p \in Paths |-> FilteredScripts(p)]

\* _is_globally_excluded for each file of the model
GloballyExcluded == [p \in Paths |-> IsGloballyExcluded(p)]

\* self._failed_files.get(file_key, 0)
FailureCount(p) == IF failed_files[p] = NoEntry THEN 0 ELSE failed_files[p]

\* a skip test that is off by one
ShouldSkipFileLate(p) == FailureCount(p) > RetryCount

\* _should_skip_file
ShouldSkipFile(p) == FailureCount(p) >= RetryCount

\* the thread c is about to call process_file, and for which path
Invoking(c) ==
    /\ pf[c].pc = "idle"
    /\ IF c \in CheckThreads THEN chk[c].st = "call"
       ELSE IF c = BacklogThread
            THEN backlog.pc = "loop" /\ backlog.todo # << >>
       ELSE IF c = RetryThread
            THEN retry.pc = "loop" /\ retry.todo # << >>
       ELSE once.pc = "loop" /\ once.todo # << >>

CallPath(c) ==
    IF c \in CheckThreads THEN chk[c].path
    ELSE IF c = BacklogThread THEN Head(backlog.todo)
    ELSE IF c = RetryThread THEN Head(retry.todo)
    ELSE Head(once.todo)

\* What the calling thread does with process_file's result r ("none": the
\* call is still running; "skipped": False, returned at line 150).
\* _check_stability has called on_file_ready once; when the call returns or
\* raises (the exception is caught) it goes to its finally clause.
CheckAfterCall(c, invoked, r) ==
    [chk EXCEPT ![c].calls = IF invoked THEN @ + 1 ELSE @,
                ![c].st = IF r # "none" THEN "pop" ELSE @]

\* process_existing goes on with the next file; an exception ends the thread
BacklogAfterCall(r) ==
    IF r = "none" THEN backlog
    ELSE IF r = "raised" THEN [pc |-> "dead", todo |-> << >>]
    ELSE IF Tail(backlog.todo) = << >> THEN [pc |-> "done", todo |-> << >>]
    ELSE [backlog EXCEPT !.todo = Tail(@)]

\* do_retry goes on with the next file; an exception ends the thread
RetryAfterCall(r) ==
    IF r = "none" THEN retry
    ELSE IF r = "raised" \/ Tail(retry.todo) = << >>
         THEN [retry EXCEPT !.pc = "off", !.todo = << >>]
    ELSE [retry EXCEPT !.todo = Tail(@)]

\* run_once, lines 285-299: a True result is counted and the loop goes on;
\* after the last file the exit code tells whether every file succeeded.  An
\* exception leaves run_once and main: the process ends with a traceback.
OnceAfterCall(r) ==
    LET n == once.success_count + (IF r = "true" THEN 1 ELSE 0) IN
    IF r = "none" THEN once
    ELSE IF r = "raised" THEN [once EXCEPT !.pc = "crashed", !.todo = << >>]
    ELSE IF Tail(once.todo) = << >>
         THEN [once EXCEPT !.pc = "exited", !.todo = << >>, !.success_count = n,
                           !.code = IF n = once.total THEN 0 ELSE 1]
    ELSE [once EXCEPT !.todo = Tail(@), !.success_count = n]

CallerStep(c, invoked, r) ==
    /\ chk' = IF c \in CheckThreads THEN CheckAfterCall(c, invoked, r) ELSE chk
    /\ backlog' = IF c = BacklogThread THEN BacklogAfterCall(r) ELSE backlog
    /\ retry' = IF c = RetryThread THEN RetryAfterCall(r) ELSE retry
    /\ once' = IF c = OnceThread THEN OnceAfterCall(r) ELSE once

Returned(r) == [IdleCall EXCEPT !.ret = r]

\* a decrement placed after the call instead of in a finally clause
ActiveAfterExitNoFinally(r) ==
    IF r = "raised" THEN active_processing ELSE active_processing - 1

\* process_file, lines 174-176: the finally clause, for a call that returns
\* r or raises
ActiveAfterExit(r) == active_processing - 1

\* process_file, lines 145-170: the three early returns, else the call is
\* counted as active and goes on to _do_process_file
PFEnter(c) ==
    LET p == CallPath(c) IN
    /\ Invoking(c)
    /\ IF ShouldSkipFile(p)
       THEN /\ pf' = [pf EXCEPT ![c] = Returned("skipped")]
            /\ CallerStep(c, TRUE, "skipped")
            /\ UNCHANGED active_processing
       ELSE IF ~Exists(p) \/ GloballyExcluded[p]
       THEN /\ pf' = [pf EXCEPT ![c] = Returned("false")]
            /\ CallerStep(c, TRUE, "false")
            /\ UNCHANGED active_processing
       ELSE /\ pf' = [pf EXCEPT ![c] = [IdleCall EXCEPT !.pc = "filter", !.path = p]]
            /\ CallerStep(c, TRUE, "none")
            /\ active_processing' = active_processing + 1
    /\ UNCHANGED <<others, world, fsize, observing, disp, pending, failed_files,
                   files_processed, archived>>

\* _do_process_file, lines 204-212: no script passes the path filters
PFFilter(c) ==
    /\ pf[c].pc = "filter"
    /\ IF ScriptsFor[pf[c].path] = << >>
       THEN /\ pf' = [pf EXCEPT ![c] = Returned("false")]
            /\ CallerStep(c, FALSE, "false")
            /\ active_processing' = ActiveAfterExit("false")
       ELSE /\ pf' = [pf EXCEPT ![c].pc = "run", ![c].idx = 1]
            /\ CallerStep(c, FALSE, "none")
            /\ UNCHANGED active_processing
    /\ UNCHANGED <<others, world, fsize, observing, disp, pending, failed_files,
                   files_processed, archived>>

\* a loop that goes on with the next script after a failed one
AfterScriptKeepsGoing(success, last) ==
    IF ~last THEN "run" ELSE IF success THEN "archive" ELSE "record"

\* lines 229-249 and 258: a failed script leads to _record_failure and the
\* return; a successful one to the next script, the last one to the archive
AfterScript(success, last) ==
    IF ~success THEN "record" ELSE IF last THEN "archive" ELSE "run"

\* _do_process_file, lines 214-256: executor.execute for the next script.
\* An exception out of execute would leave process_file through its finally
\* clause.
PFRun(c) ==
    /\ pf[c].pc = "run"
    /\ \E fault \in world.faults :
         LET scripts == ScriptsFor[pf[c].path]
             result == Execute(scripts[pf[c].idx].type, fault)
             next == AfterScript(result = "success", pf[c].idx = Len(scripts))
         IN  IF result = "raised"
             THEN /\ pf' = [pf EXCEPT ![c] = Returned("raised")]
                  /\ CallerStep(c, FALSE, "raised")
                  /\ active_processing' = ActiveAfterExit("raised")
             ELSE /\ pf' = [pf EXCEPT
                              ![c].pc = next,
                              ![c].idx = IF next = "run" THEN @ + 1 ELSE @,
                              ![c].fault = fault,
                              ![c].ran = Append(@, [name |-> scripts[pf[c].idx].name,
                                                    success |-> result = "success"])]
                  /\ CallerStep(c, FALSE, "none")
                  /\ UNCHANGED active_processing
    /\ UNCHANGED <<others, world, fsize, observing, disp, pending, failed_files,
                   files_processed, archived>>

\* _record_failure, line 299: current = self._failed_files.get(file_key, 0)
PFRecordRead(c) ==
    /\ pf[c].pc = "record"
    /\ pf' = [pf EXCEPT ![c].pc = "record_w", ![c].cur = FailureCount(pf[c].path)]
    /\ UNCHANGED <<others, world, fsize, observing, disp, pending, chk, failed_files,
                   files_processed, active_processing, archived, backlog, once,
                   retry>>

\* _record_failure, line 300: self._failed_files[file_key] = current + 1;
\* then process_file returns False through its finally clause
PFRecordWrite(c) ==
    /\ pf[c].pc = "record_w"
    /\ failed_files' = [failed_files EXCEPT ![pf[c].path] = pf[c].cur + 1]
    /\ pf' = [pf EXCEPT ![c] = Returned("false")]
    /\ CallerStep(c, FALSE, "false")
    /\ active_processing' = ActiveAfterExit("false")
    /\ UNCHANGED <<others, world, fsize, observing, disp, pending, files_processed,
                   archived>>

\* _get_unique_archive_path raises RuntimeError: the plain name and every
\* suffix -000 .. -999 are taken
ArchiveExhausted(p) == archived[p] >= ArchiveNames

\* _archive_file, lines 322-327: the path the file is moved to, for the one
\* archived file that is a path of the modelled folder
ArchiveDest(p) == IF p = PathE /\ archived[p] = 0 THEN PathR ELSE NoPath

\* _archive_file moves the file to the free name; shutil.move of a source
\* that is gone raises an OSError, which is logged
FilesAfterArchive(p) ==
    IF ~Exists(p) THEN fsize
    ELSE IF ArchiveDest(p) = NoPath THEN [fsize EXCEPT ![p] = Gone]
    ELSE [fsize EXCEPT ![p] = Gone, ![ArchiveDest(p)] = fsize[p]]

ArchiveAfterArchive(p) ==
    IF Exists(p) THEN [archived EXCEPT ![p] = @ + 1] ELSE archived

(***************************************************************************)
(* _get_unique_archive_path, on file names and on the set of names that    *)
(* exist in the archive directory.                                         *)
(***************************************************************************)
\* range(1000): the suffixes -000 .. -999 that are tried
Suffixes == 1000

RECURSIVE LastDot(_, _)
LastDot(s, i) ==
    IF i = 0 THEN 0 ELSE IF s[i] = "." THEN i ELSE LastDot(s, i - 1)

\* Path.suffix: from the last dot on, unless the dot is the first or the
\* last character of the name
PathSuffix(name) ==
    LET i == LastDot(name, Len(name)) IN
    IF 1 < i /\ i < Len(name) THEN SubSeq(name, i, Len(name)) ELSE << >>

\* Path.stem: the name without its suffix
PathStem(name) == SubSeq(name, 1, Len(name) - Len(PathSuffix(name)))

Digit(d) ==
    CASE d = 0 -> "0" [] d = 1 -> "1" [] d = 2 -> "2" [] d = 3 -> "3"
      [] d = 4 -> "4" [] d = 5 -> "5" [] d = 6 -> "6" [] d = 7 -> "7"
      [] d = 8 -> "8" [] d = 9 -> "9"

\* decimal digits of i, most significant first, with no padding
RECURSIVE Decimal(_)
Decimal(i) ==
    IF i < 10 THEN <<Digit(i)>> ELSE Append(Decimal(i \div 10), Digit(i % 10))

\* the number formatted without the zero padding
FormatUnpadded(i) == Decimal(i)

\* f"{i:03d}": zero-padded to at least three digits
Format03d(i) ==
    LET d == Decimal(i) IN
    IF Len(d) >= 3 THEN d ELSE [k \in 1..(3 - Len(d)) |-> "0"] \o d

\* line 361: f"{stem}-{i:03d}{suffix}"
NewName(filename, i) ==
    PathStem(filename) \o <<"-">> \o Format03d(i) \o PathSuffix(filename)

\* the loop of lines 360-364 over lo..hi: the least i whose name is free, or
\* Suffixes when none is (the range is searched lower half first)
RECURSIVE FirstFree(_, _, _, _)
FirstFree(existing, filename, lo, hi) ==
    IF lo = hi
    THEN IF NewName(filename, lo) \notin existing THEN lo ELSE Suffixes
    ELSE LET mid == (lo + hi) \div 2
             low == FirstFree(existing, filename, lo, mid)
         IN  IF low < Suffixes THEN low
             ELSE FirstFree(existing, filename, mid + 1, hi)

\* what _get_unique_archive_path gives when it raises
RuntimeError == <<"RuntimeError">>

\* _get_unique_archive_path(archive_dir, filename), where existing are the
\* names for which (archive_dir / name).exists()
GetUniqueArchivePath(existing, filename) ==
    IF filename \notin existing THEN filename
    ELSE LET i == FirstFree(existing, filename, 0, Suffixes - 1) IN
         IF i < Suffixes THEN NewName(filename, i) ELSE RuntimeError

\* _do_process_file, lines 262-269: the file is archived (the RuntimeError of
\* an exhausted archive leaves process_file through its finally clause), the
\* failure entry is removed and files_processed is read
PFArchive(c) ==
    LET p == pf[c].path IN
    /\ pf[c].pc = "archive"
    /\ IF ArchiveExhausted(p)
       THEN /\ pf' = [pf EXCEPT ![c] = Returned("raised")]
            /\ CallerStep(c, FALSE, "raised")
            /\ active_processing' = ActiveAfterExit("raised")
            /\ UNCHANGED <<fsize, archived, failed_files>>
       ELSE /\ fsize' = FilesAfterArchive(p)
            /\ archived' = ArchiveAfterArchive(p)
            /\ failed_files' = [failed_files EXCEPT ![p] = NoEntry]
            /\ pf' = [pf EXCEPT ![c].pc = "count", ![c].cur = files_processed]
            /\ CallerStep(c, FALSE, "none")
            /\ UNCHANGED active_processing
    /\ UNCHANGED <<others, world, observing, disp, pending, files_processed>>

\* line 269, the store of self._files_processed += 1; process_file returns True
PFCount(c) ==
    /\ pf[c].pc = "count"
    /\ files_processed' = pf[c].cur + 1
    /\ pf' = [pf EXCEPT ![c] = Returned("true")]
    /\ CallerStep(c, FALSE, "true")
    /\ active_processing' = ActiveAfterExit("true")
    /\ UNCHANGED <<others, world, fsize, observing, disp, pending, failed_files, archived>>

(***************************************************************************)
(* main.py: run_foreground.on_startup and process_existing                 *)
(***************************************************************************)
\* the orders a set of files can be listed in (modification times are not
\* modelled, so sorting by st_mtime can give any order)
Orders(S) ==
    {q \in [1..Cardinality(S) -> S] : \A i, j \in 1..Cardinality(S) :
                                          q[i] = q[j] => i = j}

\* on_startup: every watcher is started, then the backlog thread
Startup ==
    /\ ~observing
    /\ backlog.pc = "off"
    /\ observing' = TRUE
    /\ backlog' = [pc |-> "scan", todo |-> << >>]
    /\ UNCHANGED <<others, world, fsize, disp, pending, chk, pf, failed_files,
                   files_processed, active_processing, archived, retry, once>>

\* the scan with the file name compared as it is spelled
ScanSelectsCaseSensitive(file_patterns, ignore_patterns, filename) ==
    LET should_ignore == \E i \in 1..Len(ignore_patterns) :
                             FnMatch(filename, ignore_patterns[i])
    IN  IF should_ignore THEN FALSE
        ELSE \E i \in 1..Len(file_patterns) : FnMatch(filename, file_patterns[i])

\* scan_existing_files, lines 251-268: what the body of the loop does with
\* one file name of the walk
ScanSelects(file_patterns, ignore_patterns, filename) ==
    LET filename_lower == Lower(filename)
        should_ignore == \E i \in 1..Len(ignore_patterns) :
                             FnMatch(filename_lower, Lower(ignore_patterns[i]))
    IN  IF should_ignore THEN FALSE
        ELSE \E i \in 1..Len(file_patterns) :
                 FnMatch(filename_lower, Lower(file_patterns[i]))

\* the paths of the model that the scan selects when they exist
ScanMatching ==
    {p \in Paths : ScanSelects(FilePatterns, IgnorePatterns, FileName(p))}

\* scan_existing_files: the files that match the patterns, oldest first
ScanExistingFiles == {p \in ScanMatching : Exists(p)}

\* process_existing, lines 409-412
BacklogScan ==
    /\ backlog.pc = "scan"
    /\ IF ScanExistingFiles = {}
       THEN backlog' = [pc |-> "done", todo |-> << >>]
       ELSE \E q \in Orders(ScanExistingFiles) :
                backlog' = [pc |-> "loop", todo |-> q]
    /\ UNCHANGED <<others, world, fsize, observing, disp, pending, chk, pf,
                   failed_files, files_processed, active_processing, archived,
                   retry, once>>

\* run_once, lines 273-281: the existing files of the watcher are scanned;
\* with no file to process the exit code is 0
OnceScan ==
    /\ once.pc = "start"
    /\ IF ScanExistingFiles = {}
       THEN once' = [once EXCEPT !.pc = "exited", !.code = 0]
       ELSE \E q \in Orders(ScanExistingFiles) :
                once' = [once EXCEPT !.pc = "loop", !.files = ScanExistingFiles,
                                     !.todo = q, !.total = Len(q)]
    /\ UNCHANGED <<others, world, fsize, observing, disp, pending, chk, pf,
                   failed_files, files_processed, active_processing, archived,
                   backlog, retry>>

(***************************************************************************)
(* main.py: the single-instance lock.  LOCK_FILE is one directory entry;   *)
(* the files it has named are numbered in the order of their creation, and *)
(* a file lives on, without a name, while a process has it open.  A file   *)
(* holds nothing or the pid its lock holder wrote; flock locks belong to   *)
(* the open file, and a process that exits closes it.                      *)
(***************************************************************************)
\* processes that call acquire_lock, each of them once (pids are not reused)
MaxProcs == 3

Procs == 1..MaxProcs

\* the pid of an instance that ended before any of Procs started
Previous == 0

\* what a file holds after open(LOCK_FILE, "w") truncated it
Empty == -1

\* no directory entry / no open file
NoFile == 0

NoLockFile == [entry |-> NoFile, content |-> << >>, holder |-> << >>]

\* LOCK_FILE left behind by an earlier instance (release_lock keeps the file)
LeftoverLockFile == [entry |-> 1, content |-> <<Previous>>, holder |-> <<NoFile>>]

NoProc == [pc |-> "none", fd |-> NoFile, attempt |-> 0, pid |-> Empty]

\* main, line 199 (or 191): the process comes to acquire_lock
LockStart(i) ==
    /\ procs[i].pc = "none"
    /\ procs' = [procs EXCEPT ![i] = [NoProc EXCEPT !.pc = "open", !.attempt = 1]]
    /\ UNCHANGED <<arch, heap, shut, lockfile, probe, world, fsize, observing, disp, pending, chk,
                   pf, failed_files, files_processed, active_processing,
                   archived, backlog, retry, once>>

\* _try_acquire_lock, line 97: open(LOCK_FILE, "w") creates the file when the
\* entry is missing and truncates the file it names otherwise
LockOpen(i) ==
    /\ procs[i].pc = "open"
    /\ IF lockfile.entry = NoFile
       THEN /\ lockfile' = [entry |-> Len(lockfile.content) + 1,
                            content |-> Append(lockfile.content, Empty),
                            holder |-> Append(lockfile.holder, NoFile)]
            /\ procs' = [procs EXCEPT ![i].pc = "flock",
                                      ![i].fd = Len(lockfile.content) + 1]
       ELSE /\ lockfile' = [lockfile EXCEPT !.content[lockfile.entry] = Empty]
            /\ procs' = [procs EXCEPT ![i].pc = "flock", ![i].fd = lockfile.entry]
    /\ UNCHANGED <<arch, heap, shut, probe, world, fsize, observing, disp, pending, chk, pf,
                   failed_files, files_processed, active_processing, archived,
                   backlog, retry, once>>

\* where acquire_lock goes when flock fails: after the first attempt it looks
\* for a stale lock, after the second it returns False
AfterFlockFailed(attempt) == IF attempt = 1 THEN "read" ELSE "failed"

\* _try_acquire_lock, lines 98 and 103-108: flock(LOCK_EX | LOCK_NB) on the
\* open file; on failure the file is closed
LockFlock(i) ==
    /\ procs[i].pc = "flock"
    /\ IF lockfile.holder[procs[i].fd] = NoFile
       THEN /\ lockfile' = [lockfile EXCEPT !.holder[procs[i].fd] = i]
            /\ procs' = [procs EXCEPT ![i].pc = "write"]
       ELSE /\ procs' = [procs EXCEPT ![i].pc = AfterFlockFailed(procs[i].attempt),
                                      ![i].fd = NoFile]
            /\ UNCHANGED lockfile
    /\ UNCHANGED <<arch, heap, shut, probe, world, fsize, observing, disp, pending, chk, pf,
                   failed_files, files_processed, active_processing, archived,
                   backlog, retry, once>>

\* _try_acquire_lock, lines 100-102: the pid is written and flushed, and
\* acquire_lock returns True
LockWrite(i) ==
    /\ procs[i].pc = "write"
    /\ lockfile' = [lockfile EXCEPT !.content[procs[i].fd] = i]
    /\ procs' = [procs EXCEPT ![i].pc = "held"]
    /\ UNCHANGED <<arch, heap, shut, probe, world, fsize, observing, disp, pending, chk, pf,
                   failed_files, files_processed, active_processing, archived,
                   backlog, retry, once>>

\* acquire_lock, lines 127-130 and 135-139: the file LOCK_FILE names is read;
\* a missing file goes to the removal, an empty one returns False
LockRead(i) ==
    /\ procs[i].pc = "read"
    /\ IF lockfile.entry = NoFile
       THEN procs' = [procs EXCEPT ![i].pc = "unlink"]
       ELSE IF lockfile.content[lockfile.entry] = Empty
       THEN procs' = [procs EXCEPT ![i].pc = "failed"]
       ELSE procs' = [procs EXCEPT ![i].pc = "kill",
                                   ![i].pid = lockfile.content[lockfile.entry]]
    /\ UNCHANGED <<arch, heap, shut, lockfile, probe, world, fsize, observing, disp, pending, chk,
                   pf, failed_files, files_processed, active_processing,
                   archived, backlog, retry, once>>

\* _is_process_running: os.kill(pid, 0) finds a process that has started
\* and not exited
IsProcessRunning(pid) ==
    pid \in Procs /\ procs[pid].pc \notin {"none", "exited"}

\* acquire_lock, line 131: a live owner returns False, a dead one is stale
LockKill(i) ==
    /\ procs[i].pc = "kill"
    /\ procs' = [procs EXCEPT ![i].pc = IF IsProcessRunning(procs[i].pid)
                                        THEN "failed" ELSE "unlink"]
    /\ UNCHANGED <<arch, heap, shut, lockfile, probe, world, fsize, observing, disp, pending, chk,
                   pf, failed_files, files_processed, active_processing,
                   archived, backlog, retry, once>>

\* acquire_lock, lines 133-134 (138-139): LOCK_FILE.unlink(missing_ok=True),
\* then _try_acquire_lock once more
LockUnlink(i) ==
    /\ procs[i].pc = "unlink"
    /\ lockfile' = [lockfile EXCEPT !.entry = NoFile]
    /\ procs' = [procs EXCEPT ![i].pc = "open", ![i].attempt = 2]
    /\ UNCHANGED <<arch, heap, shut, probe, world, fsize, observing, disp, pending, chk, pf,
                   failed_files, files_processed, active_processing, archived,
                   backlog, retry, once>>

\* the process ends (main returns, release_lock, or a crash): its open file
\* is closed, which drops its flock
LockExit(i) ==
    /\ procs[i].pc \in {"held", "failed"}
    /\ lockfile' = IF procs[i].fd = NoFile THEN lockfile
                   ELSE [lockfile EXCEPT !.holder[procs[i].fd] = NoFile]
    /\ procs' = [procs EXCEPT ![i].pc = "exited", ![i].fd = NoFile]
    /\ UNCHANGED <<arch, heap, shut, probe, world, fsize, observing, disp, pending, chk, pf,
                   failed_files, files_processed, active_processing, archived,
                   backlog, retry, once>>

(***************************************************************************)
(* main.py: run_foreground.handle_signal, and FileWatcher.stop.  Python    *)
(* runs a signal handler in the main thread, between two instructions of   *)
(* whatever that thread is doing: a signal that arrives while the handler  *)
(* runs starts a second, nested call of the handler, and the first call    *)
(* goes on when the nested one returns.                                    *)
(***************************************************************************)
\* SIGINT and SIGTERM signals sent to the process
MaxSignals == 2

\* the process runs: sys.exit has not been called
Alive == shut.pc # "exited"

\* handle_signal that stops the watchers on every signal
RunsSequenceAlways(shutdown_requested) == TRUE

\* handle_signal, line 386: if not shutdown_requested
RunsSequence(shutdown_requested) == ~shutdown_requested

\* handle_signal, lines 384-388: a signal arrives; the first one sets the
\* flag and goes on to the watchers, a later one returns at once
HandleSignal ==
    /\ Alive
    /\ shut.signals < MaxSignals
    /\ shut' = IF RunsSequence(shut.requested)
               THEN [shut EXCEPT !.signals = @ + 1, !.requested = TRUE,
                                 !.sequences = @ + 1, !.pc = "stop"]
               ELSE [shut EXCEPT !.signals = @ + 1, !.ignored = @ + 1]
    /\ UNCHANGED <<arch, heap, probe, lockfile, procs, world, fsize, observing, disp, pending,
                   chk, pf, failed_files, files_processed, active_processing,
                   archived, backlog, retry, once>>

\* handle_signal, lines 389-390, with FileWatcher.stop, lines 216-220:
\* _observer.stop() tells the observer thread to dispatch no further event
\* (no thread looks at _observer while the main thread is inside stop; a
\* watcher that was never started has no observer and stays as it is)
SignalStop ==
    /\ shut.pc = "stop"
    /\ observing' = FALSE
    /\ shut' = [shut EXCEPT !.pc = "join"]
    /\ UNCHANGED <<arch, heap, probe, lockfile, procs, world, fsize, disp, pending, chk, pf,
                   failed_files, files_processed, active_processing, archived,
                   backlog, retry, once>>

\* FileWatcher.stop, lines 221-222: _observer.join returns when the observer
\* thread has finished the event it was dispatching, and stop returns
SignalJoin ==
    /\ shut.pc = "join"
    /\ disp.pc = "idle"
    /\ shut' = [shut EXCEPT !.pc = "exit", !.stops = @ + 1]
    /\ UNCHANGED <<arch, heap, probe, lockfile, procs, world, fsize, observing, disp, pending,
                   chk, pf, failed_files, files_processed, active_processing,
                   archived, backlog, retry, once>>

\* handle_signal, line 391: sys.exit(0) ends the process and its daemon
\* threads
SignalExit ==
    /\ shut.pc = "exit"
    /\ shut' = [shut EXCEPT !.pc = "exited"]
    /\ UNCHANGED <<arch, heap, probe, lockfile, procs, world, fsize, observing, disp, pending,
                   chk, pf, failed_files, files_processed, active_processing,
                   archived, backlog, retry, once>>

(***************************************************************************)
(* menubar.py: RAPImporterMenuBar._retry                                   *)
(***************************************************************************)
\* get_failed_files
GetFailedFiles == {p \in Paths : failed_files[p] # NoEntry}

\* _retry, lines 279-288: the failed files that still exist are collected
RetryCollect ==
    /\ observing
    /\ world.retry
    /\ retry.ui = "idle"
    /\ retry.pc = "off"
    /\ LET found == {p \in GetFailedFiles : Exists(p)} IN
       IF found = {}
       THEN UNCHANGED retry
       ELSE \E q \in Orders(found) :
                retry' = [retry EXCEPT !.ui = "collected", !.files = q]
    /\ UNCHANGED <<others, world, fsize, observing, disp, pending, chk, pf, failed_files,
                   files_processed, active_processing, archived, backlog, once>>

\* reset_failures
ResetFailures == [p \in Paths |-> NoEntry]

\* _retry, lines 293-318: failure tracking is cleared, do_retry is started
RetryReset ==
    /\ retry.ui = "collected"
    /\ failed_files' = ResetFailures
    /\ retry' = [ui |-> "idle", files |-> << >>, pc |-> "loop", todo |-> retry.files]
    /\ UNCHANGED <<others, world, fsize, observing, disp, pending, chk, pf,
                   files_processed, active_processing, archived, backlog, once>>

(***************************************************************************)
(* pipeline.py: _archive_file, for the files that come to lie at one path  *)
(* of the watch folder, one after the other, and the calls that archive    *)
(* them.  A file has the number of its content; the archive directory is   *)
(* the set of the pairs <<name, content>> of its files.                    *)
(***************************************************************************)

MaxFiles == 3

\* the name of the files, and the content of a file archived by an earlier run
ArchName == <<"a", ".", "P">>
Earlier == 0
NoContent == -1

NoArchive == [made |-> 0, src |-> NoContent, dir |-> {},
              call |-> [t \in CheckThreads |-> [pc |-> "idle", dest |-> << >>]]]

ArchNames == {e[1] : e \in arch.dir}

\* somebody puts a file at the path
ArchCreate ==
    /\ arch.src = NoContent
    /\ arch.made < MaxFiles
    /\ arch' = [arch EXCEPT !.made = @ + 1, !.src = arch.made + 1]
    /\ UNCHANGED <<probe, lockfile, procs, shut, heap, world, fsize, observing,
                   disp, pending, chk, pf, failed_files, files_processed,
                   active_processing, archived, backlog, retry, once>>

\* process_file(file_path) finds the file (line 153) and runs its scripts
\* with success
ArchCall(t) ==
    /\ arch.call[t].pc = "idle"
    /\ arch.src # NoContent
    /\ arch' = [arch EXCEPT !.call[t].pc = "archive"]
    /\ UNCHANGED <<probe, lockfile, procs, shut, heap, world, fsize, observing,
                   disp, pending, chk, pf, failed_files, files_processed,
                   active_processing, archived, backlog, retry, once>>

\* _archive_file, line 327: dest_path = _get_unique_archive_path(...)
ArchChoose(t) ==
    /\ arch.call[t].pc = "archive"
    /\ arch' = [arch EXCEPT !.call[t].pc = "move",
                            !.call[t].dest = GetUniqueArchivePath(ArchNames, ArchName)]
    /\ UNCHANGED <<probe, lockfile, procs, shut, heap, world, fsize, observing,
                   disp, pending, chk, pf, failed_files, files_processed,
                   active_processing, archived, backlog, retry, once>>

\* shutil.move(src, dst): os.rename, which puts the file in the place of a
\* file that has the name dst
DirAfterMove(dest, content) ==
    {e \in arch.dir : e[1] # dest} \cup {<<dest, content>>}

\* _archive_file, lines 330-337: the move, or the OSError of a source that
\* is no longer there, which is logged
ArchMove(t) ==
    /\ arch.call[t].pc = "move"
    /\ IF arch.src = NoContent
       THEN arch' = [arch EXCEPT !.call[t] = [pc |-> "idle", dest |-> << >>]]
       ELSE arch' = [arch EXCEPT !.call[t] = [pc |-> "idle", dest |-> << >>],
                                 !.src = NoContent,
                                 !.dir = DirAfterMove(arch.call[t].dest, arch.src)]
    /\ UNCHANGED <<probe, lockfile, procs, shut, heap, world, fsize, observing,
                   disp, pending, chk, pf, failed_files, files_processed,
                   active_processing, archived, backlog, retry, once>>

(***************************************************************************)
(* main.py: the watcher instances.  main builds one PipelineManager and    *)
(* one FileWatcher (with its StabilityCheckHandler) for each enabled       *)
(* watcher; the objects live in a heap, and a watcher reaches its own      *)
(* through the references main gave it.  Each watcher has one file here,   *)
(* which lies in its folder until it is archived, and the keys of          *)
(* _failed_files and _pending (path strings under the watcher's folder)    *)
(* are named after the watcher whose file it is.                           *)
(***************************************************************************)

MaxUnits == 2

Units == 1..MaxUnits

\* PipelineManager.__init__, lines 55-61, and StabilityCheckHandler.__init__,
\* lines 45-46: every new object has its own map, counters and pending set
NewHeap ==
    [pipeline |-> [i \in Units |-> [failed_files |-> [k \in Units |-> NoEntry],
                                    files_processed |-> 0,
                                    active_processing |-> 0]],
     handler |-> [i \in Units |-> [pending |-> {}]],
     thread |-> [u \in Units |-> "none"],
     file |-> [u \in Units |-> TRUE]]

\* one PipelineManager for all the watchers
PipelineOfShared(u) == 1

\* main, lines 229-236: a PipelineManager is constructed in each turn of the loop
PipelineOf(u) == u

\* main, line 238, and FileWatcher.start, line 205: a handler for each FileWatcher
HandlerOf(u) == u

UnitFailureCount(u) ==
    LET n == heap.pipeline[PipelineOf(u)].failed_files[u]
    IN  IF n = NoEntry THEN 0 ELSE n

\* _handle_file, lines 80-87, for the file of watcher u
UnitHandleFile(u) ==
    /\ heap.thread[u] = "none"
    /\ heap.file[u]
    /\ u \notin heap.handler[HandlerOf(u)].pending
    /\ heap' = [heap EXCEPT !.handler[HandlerOf(u)].pending = @ \cup {u},
                            !.thread[u] = "check"]
    /\ UNCHANGED <<arch, probe, lockfile, procs, shut, world, fsize, observing, disp,
                   pending, chk, pf, failed_files, files_processed,
                   active_processing, archived, backlog, retry, once>>

\* _check_stability leaves its loop without the callback (the file is gone,
\* stat fails or the timeout is over)
UnitCheckExit(u) ==
    /\ heap.thread[u] = "check"
    /\ heap' = [heap EXCEPT !.thread[u] = "pop"]
    /\ UNCHANGED <<arch, probe, lockfile, procs, shut, world, fsize, observing, disp,
                   pending, chk, pf, failed_files, files_processed,
                   active_processing, archived, backlog, retry, once>>

\* the file is stable: on_file_ready, that is process_file of the watcher's
\* PipelineManager, up to line 170
UnitProcessEnter(u) ==
    /\ heap.thread[u] = "check"
    /\ IF UnitFailureCount(u) >= RetryCount
       THEN heap' = [heap EXCEPT !.thread[u] = "pop"]
       ELSE heap' = [heap EXCEPT !.pipeline[PipelineOf(u)].active_processing = @ + 1,
                                 !.thread[u] = "call"]
    /\ UNCHANGED <<arch, probe, lockfile, procs, shut, world, fsize, observing, disp,
                   pending, chk, pf, failed_files, files_processed,
                   active_processing, archived, backlog, retry, once>>

\* _do_process_file ends with a failed script or with success, and the
\* finally clause of process_file, lines 174-176
UnitProcessExit(u) ==
    /\ heap.thread[u] = "call"
    /\ \E ok \in BOOLEAN :
         /\ heap' = [heap EXCEPT
                       !.pipeline[PipelineOf(u)] =
                           [failed_files |->
                                [@.failed_files EXCEPT ![u] =
                                     IF ok THEN NoEntry ELSE UnitFailureCount(u) + 1],
                            files_processed |->
                                IF ok THEN @.files_processed + 1 ELSE @.files_processed,
                            active_processing |-> @.active_processing - 1],
                       !.thread[u] = "pop",
                       !.file[u] = ~ok]
    /\ UNCHANGED <<arch, probe, lockfile, procs, shut, world, fsize, observing, disp,
                   pending, chk, pf, failed_files, files_processed,
                   active_processing, archived, backlog, retry, once>>

\* _check_stability, lines 168-170
UnitPop(u) ==
    /\ heap.thread[u] = "pop"
    /\ heap' = [heap EXCEPT !.handler[HandlerOf(u)].pending = @ \ {u},
                            !.thread[u] = "none"]
    /\ UNCHANGED <<arch, probe, lockfile, procs, shut, world, fsize, observing, disp,
                   pending, chk, pf, failed_files, files_processed,
                   active_processing, archived, backlog, retry, once>>

\* reset_failures of the watcher's PipelineManager
UnitReset(u) ==
    /\ heap' = [heap EXCEPT !.pipeline[PipelineOf(u)].failed_files =
                                [k \in Units |-> NoEntry]]
    /\ UNCHANGED <<arch, probe, lockfile, procs, shut, world, fsize, observing, disp,
                   pending, chk, pf, failed_files, files_processed,
                   active_processing, archived, backlog, retry, once>>

(***************************************************************************)
(* simulate.py: the path filter simulation.  A FilterResult is the value   *)
(* of its enumeration member.                                              *)
(***************************************************************************)

\* the include patterns are looked at before the exclude patterns
CheckScriptFiltersIncludeFirst(script, path) ==
    IF script.include_paths = << >> /\ script.exclude_paths = << >> THEN "run"
    ELSE IF \E i \in 1..Len(script.include_paths) :
                FnMatch(path, script.include_paths[i]) THEN "run"
    ELSE IF \E i \in 1..Len(script.exclude_paths) :
                FnMatch(path, script.exclude_paths[i]) THEN "excluded"
    ELSE IF script.include_paths = << >> THEN "run"
    ELSE "skipped"

\* _check_script_filters
CheckScriptFilters(script, path) ==
    IF script.include_paths = << >> /\ script.exclude_paths = << >> THEN "run"
    ELSE IF \E i \in 1..Len(script.exclude_paths) :
                FnMatch(path, script.exclude_paths[i]) THEN "excluded"
    ELSE IF script.include_paths = << >> THEN "run"
    ELSE IF \E i \in 1..Len(script.include_paths) :
                FnMatch(path, script.include_paths[i]) THEN "run"
    ELSE "skipped"

\* evaluate_path, lines 183-190: globally_excluded of the PathEvaluation
EvaluatePath(path, global_exclude_paths) ==
    \E i \in 1..Len(global_exclude_paths) : FnMatch(path, global_exclude_paths[i])

(***************************************************************************)
(* Calls of the functions of their arguments alone, on arguments drawn     *)
(* from small sets.                                                        *)
(***************************************************************************)
\* the longest include_paths and exclude_paths lists that are tried
MaxPatterns == 2

\* the highest suffix that may or may not be taken in a sparse archive
MaxTaken == 2

PatternPool == {<<"d", "/", "*">>, <<"*", ".", "t">>, <<"*", ".", "P">>}

PatternLists == UNION {[1..n -> PatternPool] : n \in 0..MaxPatterns}

FileNames == {<<"a", ".", "P">>, <<"a">>, <<".", "p">>}

DigitChars == {"0", "1", "2", "3", "4", "5", "6", "7", "8", "9"}

\* the name of a file with the three digits ds between its stem and its
\* extension
Numbered(filename, ds) ==
    PathStem(filename) \o <<"-">> \o ds \o PathSuffix(filename)

\* an archive directory in which the plain name and all 1000 numbered names
\* are taken
FullArchive(filename) ==
    {filename} \cup {Numbered(filename, <<a, b, c>>) : a, b, c \in DigitChars}

\* the archive directories that are tried for a file name: any of the plain
\* name and the first numbered names taken, and full or nearly full ones
Archives(filename) ==
    (SUBSET ({filename} \cup
                {Numbered(filename, <<"0", "0", Digit(i)>>) : i \in 0..MaxTaken}))
    \cup {FullArchive(filename),
          FullArchive(filename) \ {Numbered(filename, <<"9", "9", "9">>)},
          FullArchive(filename) \ {Numbered(filename, <<"0", "1", "0">>),
                                    Numbered(filename, <<"1", "0", "0">>)}}

\* patterns a user may list in global_exclude_paths
ExcludePool == {ArchivedPattern, <<"t", "m", "p", "/", "*">>, <<"d", "/", "*">>}

ExcludeLists == UNION {[1..n -> ExcludePool] : n \in 0..MaxPatterns}

\* file_patterns and ignore_patterns of a WatchConfig, and file names
WatchPatternPool == {<<"*", ".", "P">>, <<"b", "*">>, <<"A", ".", "?">>}

WatchPatternLists == UNION {[1..n -> WatchPatternPool] : n \in 0..MaxPatterns}

WatchedPaths == {<<"a", ".", "P">>, <<"d", "/", "B", ".", "p">>,
                 <<"b", "/", "A", ".", "t">>, <<"c", ".", "t">>}

\* the deepest path below the base folder that is tried
MaxSegments == 4

\* names of folders and files
SegmentPool == {<<"M", "y">>, <<"g">>, <<"a", ".", "P">>}

SegmentLists == UNION {[1..n -> SegmentPool] : n \in 1..MaxSegments}

\* config.watch.expanded_base_folder
BaseFolder == <<"/", "w", "/", "i", "n">>

\* a file of another folder
OutsidePath == <<"/", "w", "/", "o", "/", "d", "/", "a", ".", "P">>

\* files below the base folder, and one that is not
FilePaths == {BaseFolder \o <<"/">> \o p : p \in Paths} \cup {OutsidePath}

Probes ==
    [fn : {"from_file"}, segments : SegmentLists, done : {FALSE},
     result : {<< >>}]
    \cup
    [fn : {"process_file"}, file_path : FilePaths, done : {FALSE},
     global_check : {<< >>}, script_check : {<< >>}]
    \cup
    [fn : {"matches_patterns"}, file_patterns : WatchPatternLists,
     ignore_patterns : WatchPatternLists, file_path : WatchedPaths,
     done : {FALSE}, live : {FALSE}, scan : {FALSE}]
    \cup
    [fn : {"new_pipeline_manager"}, given : {TRUE}, argument : ExcludeLists,
     done : {FALSE}, result : {<< >>}]
    \cup
    [fn : {"new_pipeline_manager"}, given : {FALSE}, argument : {<< >>},
     done : {FALSE}, result : {<< >>}]
    \cup
    [fn : {"should_run_script"},
     script : [name : {"s"}, enabled : {TRUE},
               include_paths : PatternLists, exclude_paths : PatternLists],
     relative_path : Paths, extra : PatternPool,
     done : {FALSE}, result : {FALSE}, result_extra : {FALSE}]
    \cup
    [fn : {"check_script_filters"},
     script : [name : {"s"}, enabled : {TRUE},
               include_paths : PatternLists, exclude_paths : PatternLists],
     path : Paths, done : {FALSE}, result : {"none"}, pipeline : {FALSE}]
    \cup
    [fn : {"evaluate_path"}, global_exclude_paths : ExcludeLists, path : Paths,
     done : {FALSE}, globally_excluded : {FALSE}, pipeline : {FALSE}]
    \cup
    UNION {[fn : {"get_unique_archive_path"}, filename : {f},
            existing : Archives(f), done : {FALSE}, result : {<< >>}]
              : f \in FileNames}

\* _should_run_script(script, relative_path), and the same call for the
\* script with one more exclude pattern
CallShouldRunScript ==
    /\ probe.fn = "should_run_script"
    /\ ~probe.done
    /\ probe' = [probe EXCEPT
                    !.done = TRUE,
                    !.result = ShouldRunScript(probe.script, probe.relative_path),
                    !.result_extra = ShouldRunScript(
                        [probe.script EXCEPT
                            !.exclude_paths = Append(@, probe.extra)],
                        probe.relative_path)]
    /\ UNCHANGED <<arch, heap, shut, lockfile, procs, world, fsize, observing, disp, pending, chk,
                   pf, failed_files, files_processed, active_processing,
                   archived, backlog, retry, once>>

\* simulate._check_script_filters(script, path), and _should_run_script of a
\* PipelineManager for the same script and path
CallCheckScriptFilters ==
    /\ probe.fn = "check_script_filters"
    /\ ~probe.done
    /\ probe' = [probe EXCEPT
                    !.done = TRUE,
                    !.result = CheckScriptFilters(probe.script, probe.path),
                    !.pipeline = ShouldRunScript(probe.script, probe.path)]
    /\ UNCHANGED <<arch, heap, shut, lockfile, procs, world, fsize, observing, disp, pending, chk,
                   pf, failed_files, files_processed, active_processing,
                   archived, backlog, retry, once>>

\* simulate.evaluate_path(path, watcher), and the global-exclude check of the
\* PipelineManager that main builds from the same watcher configuration
CallEvaluatePath ==
    /\ probe.fn = "evaluate_path"
    /\ ~probe.done
    /\ probe' = [probe EXCEPT
                    !.done = TRUE,
                    !.globally_excluded =
                        EvaluatePath(probe.path, probe.global_exclude_paths),
                    !.pipeline =
                        SkipsAsGloballyExcluded(probe.global_exclude_paths, probe.path)]
    /\ UNCHANGED <<arch, heap, shut, lockfile, procs, world, fsize, observing, disp, pending, chk,
                   pf, failed_files, files_processed, active_processing,
                   archived, backlog, retry, once>>

\* process_file(file_path) up to the global-exclude check and
\* _do_process_file up to the filter of the scripts: the strings that
\* _is_globally_excluded and _should_run_script are called with
CallProcessFile ==
    /\ probe.fn = "process_file"
    /\ ~probe.done
    /\ probe' = [probe EXCEPT
                    !.done = TRUE,
                    !.global_check =
                        ProcessFileRelativePath(probe.file_path, BaseFolder),
                    !.script_check =
                        FromFile(probe.file_path, BaseFolder).relative_path]
    /\ UNCHANGED <<arch, heap, shut, lockfile, procs, world, fsize, observing, disp, pending, chk,
                   pf, failed_files, files_processed, active_processing,
                   archived, backlog, retry, once>>

\* FileVariables.from_file(file_path, base_folder) for the file that lies
\* below the base folder in the folders probe.segments names
CallFromFile ==
    /\ probe.fn = "from_file"
    /\ ~probe.done
    /\ probe' = [probe EXCEPT
                    !.done = TRUE,
                    !.result = FromFile(BaseFolder \o <<"/">>
                                            \o Join(<<"/">>, probe.segments),
                                        BaseFolder)]
    /\ UNCHANGED <<arch, heap, shut, lockfile, procs, world, fsize, observing, disp, pending, chk,
                   pf, failed_files, files_processed, active_processing,
                   archived, backlog, retry, once>>

\* the file is offered to the handler of a watcher (_matches_patterns) and
\* met by the walk of scan_existing_files for the same WatchConfig
CallMatchesPatterns ==
    /\ probe.fn = "matches_patterns"
    /\ ~probe.done
    /\ probe' = [probe EXCEPT
                    !.done = TRUE,
                    !.live = MatchesPatternsFor(probe.file_patterns,
                                                probe.ignore_patterns,
                                                probe.file_path),
                    !.scan = ScanSelects(probe.file_patterns,
                                         probe.ignore_patterns,
                                         FileName(probe.file_path))]
    /\ UNCHANGED <<arch, heap, shut, lockfile, procs, world, fsize, observing, disp, pending, chk,
                   pf, failed_files, files_processed, active_processing,
                   archived, backlog, retry, once>>

\* PipelineManager(..., global_exclude_paths=argument, ...), or the call
\* without the argument (None)
CallNewPipelineManager ==
    /\ probe.fn = "new_pipeline_manager"
    /\ ~probe.done
    /\ probe' = [probe EXCEPT
                    !.done = TRUE,
                    !.result = NewPipelineManager(probe.given, probe.argument)]
    /\ UNCHANGED <<arch, heap, shut, lockfile, procs, world, fsize, observing, disp, pending, chk,
                   pf, failed_files, files_processed, active_processing,
                   archived, backlog, retry, once>>

\* _get_unique_archive_path(archive_dir, filename)
CallGetUniqueArchivePath ==
    /\ probe.fn = "get_unique_archive_path"
    /\ ~probe.done
    /\ probe' = [probe EXCEPT
                    !.done = TRUE,
                    !.result = GetUniqueArchivePath(probe.existing, probe.filename)]
    /\ UNCHANGED <<arch, heap, shut, lockfile, procs, world, fsize, observing, disp, pending, chk,
                   pf, failed_files, files_processed, active_processing,
                   archived, backlog, retry, once>>

(***************************************************************************)
(* The watch folder: files are created, grow and are deleted by others.    *)
(* world.early are the files that can arrive before the program starts     *)
(* watching, world.late those that can arrive afterwards, world.last those *)
(* that arrive after process_existing has listed the folder; world.events  *)
(* are the paths the observer reports events for (an event can outlive its *)
(* file); world.grow are the files written in place, from empty, the       *)
(* others arrive complete; world.delete are the files that others may      *)
(* delete; world.retry tells whether the user clicks the Retry item;       *)
(* world.faults are the ways in which a script's execution can end.        *)
(***************************************************************************)
Create(p) ==
    /\ fsize[p] = NotYet
    /\ p \in (IF ~observing THEN world.early
              ELSE IF backlog.pc \in {"off", "scan"} THEN world.late
              ELSE world.late \cup world.last)
    /\ fsize' = [fsize EXCEPT ![p] = IF p \in world.grow THEN 0 ELSE MaxSize]
    /\ UNCHANGED <<others, world, observing, disp, pending, chk, pf, failed_files,
                   files_processed, active_processing, archived, backlog, once,
                   retry>>

Write(p) ==
    /\ Exists(p)
    /\ fsize[p] < MaxSize
    /\ fsize' = [fsize EXCEPT ![p] = @ + 1]
    /\ UNCHANGED <<others, world, observing, disp, pending, chk, pf, failed_files,
                   files_processed, active_processing, archived, backlog, once,
                   retry>>

Delete(p) ==
    /\ Exists(p)
    /\ p \in world.delete
    /\ fsize' = [fsize EXCEPT ![p] = Gone]
    /\ UNCHANGED <<others, world, observing, disp, pending, chk, pf, failed_files,
                   files_processed, active_processing, archived, backlog, once,
                   retry>>

(***************************************************************************)
(* The specification.                                                      *)
(***************************************************************************)
InitPipeline ==
    /\ fsize = [p \in Paths |-> NotYet]
    /\ observing = FALSE
    /\ disp = [pc |-> "idle", path |-> NoPath]
    /\ pending = {}
    /\ chk = [t \in CheckThreads |-> FreeCheck]
    /\ pf = [c \in Callers |-> IdleCall]
    /\ failed_files = [p \in Paths |-> NoEntry]
    /\ files_processed = 0
    /\ active_processing = 0
    /\ backlog = [pc |-> "off", todo |-> << >>]
    /\ retry = [ui |-> "idle", files |-> << >>, pc |-> "off", todo |-> << >>]
    /\ shut = NoShutdown
    /\ heap = NewHeap

\* the program in the foreground mode, before on_startup
InitState ==
    /\ InitPipeline
    /\ arch = NoArchive
    /\ once = OnceOff
    /\ probe = NoProbe
    /\ lockfile = NoLockFile
    /\ procs = [i \in Procs |-> NoProc]

\* the folder holds files at startup, the user retries failed files
Init ==
    /\ world = [early |-> {PathA}, late |-> {}, last |-> {}, events |-> {PathA},
                grow |-> {PathA}, delete |-> {PathA}, retry |-> TRUE,
                faults |-> PlainFaults]
    /\ InitState
    /\ archived = [p \in Paths |-> 0]

\* the folder is empty at startup; one file arrives and is written in place;
\* its archive directory is empty or has no free name left
InitCheck ==
    /\ world = [early |-> {}, late |-> {PathA}, last |-> {}, events |-> {PathA},
                grow |-> {PathA}, delete |-> {PathA}, retry |-> FALSE,
                faults |-> PlainFaults]
    /\ InitState
    /\ archived \in {[p \in Paths |-> 0],
                     [p \in Paths |-> IF p = PathA THEN ArchiveNames ELSE 0]}

\* the folder is empty at startup; a globally excluded file arrives complete,
\* and events are reported for files of every kind, present or not
InitWatch ==
    /\ world = [early |-> {}, late |-> {PathD}, last |-> {},
                events |-> Paths \ {PathR},
                grow |-> {}, delete |-> {PathD}, retry |-> FALSE,
                faults |-> PlainFaults]
    /\ InitState
    /\ archived = [p \in Paths |-> 0]

Next ==
    \/ \E p \in Paths : Create(p)
    \/ \E p \in Paths : Write(p)
    \/ \E p \in Paths : Delete(p)
    \/ Startup
    \/ \E p \in Paths : OnCreated(p)
    \/ \E p \in Paths : OnModified(p)
    \/ HandleFile
    \/ \E t \in CheckThreads : Poll(t)
    \/ \E t \in CheckThreads : Pop(t)
    \/ BacklogScan
    \/ RetryCollect
    \/ RetryReset
    \/ \E c \in Callers : PFEnter(c)
    \/ \E c \in Callers : PFFilter(c)
    \/ \E c \in Callers : PFRun(c)
    \/ \E c \in Callers : PFRecordRead(c)
    \/ \E c \in Callers : PFRecordWrite(c)
    \/ \E c \in Callers : PFArchive(c)
    \/ \E c \in Callers : PFCount(c)

Spec == Init /\ [][Next]_vars

\* the program while nobody clicks Retry
NextCheck ==
    \/ \E p \in Paths : Create(p)
    \/ \E p \in Paths : Write(p)
    \/ \E p \in Paths : Delete(p)
    \/ Startup
    \/ \E p \in Paths : OnCreated(p)
    \/ \E p \in Paths : OnModified(p)
    \/ HandleFile
    \/ \E t \in CheckThreads : Poll(t)
    \/ \E t \in CheckThreads : Pop(t)
    \/ BacklogScan
    \/ \E c \in Callers : PFEnter(c)
    \/ \E c \in Callers : PFFilter(c)
    \/ \E c \in Callers : PFRun(c)
    \/ \E c \in Callers : PFRecordRead(c)
    \/ \E c \in Callers : PFRecordWrite(c)
    \/ \E c \in Callers : PFArchive(c)
    \/ \E c \in Callers : PFCount(c)

SpecCheck == InitCheck /\ [][NextCheck]_vars

\* the observer, the handler and its checks, while no file enters a pipeline
NextWatch ==
    \/ \E p \in Paths : Create(p)
    \/ \E p \in Paths : Delete(p)
    \/ Startup
    \/ \E p \in Paths : OnCreated(p)
    \/ \E p \in Paths : OnModified(p)
    \/ HandleFile
    \/ \E t \in CheckThreads : Poll(t)
    \/ \E t \in CheckThreads : Pop(t)
    \/ BacklogScan
    \/ \E c \in Callers : PFEnter(c)

SpecWatch == InitWatch /\ [][NextWatch]_vars

\* two files with different names: one lies in the folder at startup, the
\* other arrives complete after the backlog thread has listed the folder;
\* both stay until they are archived
InitTwo ==
    /\ world = [early |-> {PathE}, late |-> {}, last |-> {PathA},
                events |-> {PathA}, grow |-> {}, delete |-> {}, retry |-> FALSE,
                faults |-> PlainFaults]
    /\ InitState
    /\ archived = [p \in Paths |-> 0]

NextTwo ==
    \/ \E p \in Paths : Create(p)
    \/ Startup
    \/ \E p \in Paths : OnCreated(p)
    \/ HandleFile
    \/ \E t \in CheckThreads : Poll(t)
    \/ \E t \in CheckThreads : Pop(t)
    \/ BacklogScan
    \/ \E c \in Callers : PFEnter(c)
    \/ \E c \in Callers : PFFilter(c)
    \/ \E c \in Callers : PFRun(c)
    \/ \E c \in Callers : PFRecordRead(c)
    \/ \E c \in Callers : PFRecordWrite(c)
    \/ \E c \in Callers : PFArchive(c)
    \/ \E c \in Callers : PFCount(c)

SpecTwo == InitTwo /\ [][NextTwo]_vars

\* the one-shot mode: files lie in the folder (one of them passes no
\* script's filters, one is globally excluded by the user's pattern), the
\* archive is empty or has no free name left for
\* d/a.P, and files still arrive or are deleted while run_once works
InitOnce ==
    /\ world = [early |-> {PathA, PathD, PathN}, late |-> {}, last |-> {},
                events |-> {}, grow |-> {}, delete |-> {PathA}, retry |-> FALSE,
                faults |-> Faults]
    /\ InitPipeline
    /\ arch = NoArchive
    /\ archived \in {[p \in Paths |-> 0],
                     [p \in Paths |-> IF p = PathA THEN ArchiveNames ELSE 0]}
    /\ once = [OnceOff EXCEPT !.pc = "start"]
    /\ probe = NoProbe
    /\ lockfile = NoLockFile
    /\ procs = [i \in Procs |-> NoProc]

NextOnce ==
    \/ \E p \in Paths : Create(p)
    \/ \E p \in Paths : Delete(p)
    \/ OnceScan
    \/ \E c \in Callers : PFEnter(c)
    \/ \E c \in Callers : PFFilter(c)
    \/ \E c \in Callers : PFRun(c)
    \/ \E c \in Callers : PFRecordRead(c)
    \/ \E c \in Callers : PFRecordWrite(c)
    \/ \E c \in Callers : PFArchive(c)
    \/ \E c \in Callers : PFCount(c)

SpecOnce == InitOnce /\ [][NextOnce]_vars

\* the foreground mode with signals: the folder is empty at startup, one file
\* arrives complete, and SIGINT or SIGTERM is sent at any time
InitStop ==
    /\ world = [early |-> {}, late |-> {PathA}, last |-> {}, events |-> {PathA},
                grow |-> {}, delete |-> {}, retry |-> FALSE,
                faults |-> PlainFaults]
    /\ InitState
    /\ archived = [p \in Paths |-> 0]

\* threads run while the process lives; on_startup runs in the main thread,
\* so never inside the handler
NextStop ==
    \/ Alive /\ \E p \in Paths : Create(p)
    \/ shut.pc = "run" /\ Startup
    \/ Alive /\ \E p \in Paths : OnCreated(p)
    \/ Alive /\ \E p \in Paths : OnModified(p)
    \/ Alive /\ HandleFile
    \/ Alive /\ \E t \in CheckThreads : Poll(t)
    \/ Alive /\ \E t \in CheckThreads : Pop(t)
    \/ Alive /\ BacklogScan
    \/ Alive /\ \E c \in Callers : PFEnter(c)
    \/ Alive /\ \E c \in Callers : PFFilter(c)
    \/ Alive /\ \E c \in Callers : PFRun(c)
    \/ Alive /\ \E c \in Callers : PFRecordRead(c)
    \/ Alive /\ \E c \in Callers : PFRecordWrite(c)
    \/ Alive /\ \E c \in Callers : PFArchive(c)
    \/ Alive /\ \E c \in Callers : PFCount(c)
    \/ HandleSignal
    \/ SignalStop
    \/ SignalJoin
    \/ SignalExit

\* the main thread runs the handler to its end, and the observer thread
\* finishes the event it is dispatching
SpecStop ==
    /\ InitStop
    /\ [][NextStop]_vars
    /\ WF_vars(SignalStop)
    /\ WF_vars(SignalJoin)
    /\ WF_vars(SignalExit)
    /\ WF_vars(Alive /\ HandleFile)

\* two files lie in the folder at startup and stay there; the user clicks
\* Retry while the backlog thread works, or after it
InitRetry ==
    /\ world = [early |-> {PathA, PathE}, late |-> {}, last |-> {}, events |-> {},
                grow |-> {}, delete |-> {}, retry |-> TRUE,
                faults |-> PlainFaults]
    /\ InitState
    /\ archived = [p \in Paths |-> 0]

NextRetry ==
    \/ \E p \in Paths : Create(p)
    \/ Startup
    \/ BacklogScan
    \/ RetryCollect
    \/ RetryReset
    \/ \E c \in Callers : PFEnter(c)
    \/ \E c \in Callers : PFFilter(c)
    \/ \E c \in Callers : PFRun(c)
    \/ \E c \in Callers : PFRecordRead(c)
    \/ \E c \in Callers : PFRecordWrite(c)
    \/ \E c \in Callers : PFArchive(c)
    \/ \E c \in Callers : PFCount(c)

SpecRetry == InitRetry /\ [][NextRetry]_vars

\* nothing happens in the watch folder and nobody clicks Retry
QuietWorld == [early |-> {}, late |-> {}, last |-> {}, events |-> {}, grow |-> {},
               delete |-> {}, retry |-> FALSE, faults |-> PlainFaults]

\* one call of a function of its arguments alone
InitPure ==
    /\ world = QuietWorld
    /\ InitPipeline
    /\ arch = NoArchive
    /\ archived = [p \in Paths |-> 0]
    /\ once = OnceOff
    /\ lockfile = NoLockFile
    /\ procs = [i \in Procs |-> NoProc]
    /\ probe \in Probes

NextPure ==
    \/ CallFromFile
    \/ CallProcessFile
    \/ CallMatchesPatterns
    \/ CallNewPipelineManager
    \/ CallShouldRunScript
    \/ CallCheckScriptFilters
    \/ CallEvaluatePath
    \/ CallGetUniqueArchivePath

SpecPure == InitPure /\ [][NextPure]_vars

\* several watchers, each with one file that is reported again and again
InitUnits ==
    /\ world = QuietWorld
    /\ InitState
    /\ archived = [p \in Paths |-> 0]

NextUnits ==
    \/ \E u \in Units : UnitHandleFile(u)
    \/ \E u \in Units : UnitCheckExit(u)
    \/ \E u \in Units : UnitProcessEnter(u)
    \/ \E u \in Units : UnitProcessExit(u)
    \/ \E u \in Units : UnitPop(u)
    \/ \E u \in Units : UnitReset(u)

SpecUnits == InitUnits /\ [][NextUnits]_vars

\* files that come to lie at one path, and the calls that archive them into
\* a directory that is empty or holds a file of the name from an earlier run
InitArchive ==
    /\ world = QuietWorld
    /\ InitPipeline
    /\ archived = [p \in Paths |-> 0]
    /\ once = OnceOff
    /\ probe = NoProbe
    /\ lockfile = NoLockFile
    /\ procs = [i \in Procs |-> NoProc]
    /\ arch \in {NoArchive, [NoArchive EXCEPT !.dir = {<<ArchName, Earlier>>}]}

NextArchive ==
    \/ ArchCreate
    \/ \E t \in CheckThreads : ArchCall(t)
    \/ \E t \in CheckThreads : ArchChoose(t)
    \/ \E t \in CheckThreads : ArchMove(t)

SpecArchive == InitArchive /\ [][NextArchive]_vars

\* the folder is empty at startup; e.p arrives complete and is archived, and
\* the observer, which watches the folder recursively, reports the archived
\* file as it reports e.p
InitMoved ==
    /\ world = [early |-> {}, late |-> {PathE}, last |-> {},
                events |-> {PathE, PathR}, grow |-> {}, delete |-> {},
                retry |-> FALSE, faults |-> PlainFaults]
    /\ InitState
    /\ archived = [p \in Paths |-> 0]

NextMoved ==
    \/ \E p \in Paths : Create(p)
    \/ Startup
    \/ \E p \in Paths : OnCreated(p)
    \/ HandleFile
    \/ \E t \in CheckThreads : Poll(t)
    \/ \E t \in CheckThreads : Pop(t)
    \/ \E c \in Callers : PFEnter(c)
    \/ \E c \in Callers : PFFilter(c)
    \/ \E c \in Callers : PFRun(c)
    \/ \E c \in Callers : PFRecordRead(c)
    \/ \E c \in Callers : PFRecordWrite(c)
    \/ \E c \in Callers : PFArchive(c)
    \/ \E c \in Callers : PFCount(c)

SpecMoved == InitMoved /\ [][NextMoved]_vars

\* the threads of the watcher are scheduled again and again: a check thread
\* goes on with its loop, its callback and its finally clause, and the
\* observer thread finishes the event it dispatches
InitLive ==
    /\ world = [early |-> {}, late |-> {PathA}, last |-> {}, events |-> {PathA},
                grow |-> {PathA}, delete |-> {PathA}, retry |-> FALSE,
                faults |-> PlainFaults]
    /\ InitState
    /\ archived \in {[p \in Paths |-> 0],
                     [p \in Paths |-> IF p = PathA THEN ArchiveNames ELSE 0]}

CallStep(c) ==
    \/ PFEnter(c)
    \/ PFFilter(c)
    \/ PFRun(c)
    \/ PFRecordRead(c)
    \/ PFRecordWrite(c)
    \/ PFArchive(c)
    \/ PFCount(c)

NextLive ==
    \/ \E p \in Paths : Create(p)
    \/ \E p \in Paths : Write(p)
    \/ \E p \in Paths : Delete(p)
    \/ Startup
    \/ \E p \in Paths : OnCreated(p)
    \/ \E p \in Paths : OnModified(p)
    \/ HandleFile
    \/ \E t \in CheckThreads : Poll(t)
    \/ \E t \in CheckThreads : Pop(t)
    \/ \E t \in CheckThreads : CallStep(t)

SpecLive ==
    /\ InitLive
    /\ [][NextLive]_vars
    /\ WF_vars(HandleFile)
    /\ \A t \in CheckThreads :
          WF_vars(Poll(t)) /\ WF_vars(Pop(t)) /\ WF_vars(CallStep(t))

\* the processes that come to acquire_lock, with or without a lock file left
\* behind by an earlier instance
InitLock ==
    /\ world = QuietWorld
    /\ InitPipeline
    /\ arch = NoArchive
    /\ archived = [p \in Paths |-> 0]
    /\ once = OnceOff
    /\ probe = NoProbe
    /\ lockfile \in {NoLockFile, LeftoverLockFile}
    /\ procs = [i \in Procs |-> NoProc]

NextLock ==
    \/ \E i \in Procs : LockStart(i)
    \/ \E i \in Procs : LockOpen(i)
    \/ \E i \in Procs : LockFlock(i)
    \/ \E i \in Procs : LockWrite(i)
    \/ \E i \in Procs : LockRead(i)
    \/ \E i \in Procs : LockKill(i)
    \/ \E i \in Procs : LockUnlink(i)
    \/ \E i \in Procs : LockExit(i)

SpecLock == InitLock /\ [][NextLock]_vars

TypeOK ==
    /\ fsize \in [Paths -> NotYet..MaxSize]
    /\ pending \subseteq Paths \X CheckThreads
    /\ \A c \in Callers : pf[c].pc \in {"idle", "filter", "run", "record",
                                        "record_w", "archive", "count"}

(***************************************************************************)
(* Properties.                                                             *)
(***************************************************************************)
\* the process_file call of thread c has passed its early returns
InProgress(c) == pf[c].pc # "idle"

\* the process_file call of thread c is executing, or has executed, scripts
InRun(c) == pf[c].pc \in {"run", "record", "record_w", "archive", "count"}

\* the stability-check threads alive for path p
ChecksOf(p) == {t \in CheckThreads : chk[t].st # "free" /\ chk[t].path = p}

\* C1: a file present at startup has its pipeline run exactly once, also when
\* a live event for it is delivered while the backlog thread handles it: no
\* two calls made by the backlog thread and the stability checks run the
\* scripts of the same file, and no more runs succeed than there are files.
C1_StartupFileRunOnce ==
    /\ \A p \in world.early :
          Cardinality({c \in CheckThreads \cup {BacklogThread} :
                          InRun(c) /\ pf[c].path = p}) <= 1
    /\ files_processed <= Cardinality(world.early \cup world.late)

\* C2: for any path, at most one process_file call that has passed the
\* max-retries, existence and global-exclude checks is in progress.
C2_OneRunPerPath ==
    \A p \in Paths :
        Cardinality({c \in Callers : InProgress(c) /\ pf[c].path = p}) <= 1

\* C3: at most one stability-check thread is alive per path, whatever the
\* interleaving of events and checks.
C3_OneCheckPerPath == \A p \in Paths : Cardinality(ChecksOf(p)) <= 1

\* two paths are being checked and an event for a pending path is in
\* _handle_file
C3_Witness ==
    /\ disp.pc = "handle"
    /\ IsPending(disp.path)
    /\ \E p \in Paths : p # disp.path /\ IsPending(p)

\* C4: a stability check calls on_file_ready exactly once when its loop ends
\* because the file is stable, and never when it ends by timeout, because
\* the file is gone, or by a stat error.
C4_CallbackIffStable ==
    \A t \in CheckThreads :
        /\ chk[t].calls <= 1
        /\ chk[t].st = "call" => chk[t].exit = "stable"
        /\ chk[t].st = "pop" =>
               chk[t].calls = (IF chk[t].exit = "stable" THEN 1 ELSE 0)

\* a check has called on_file_ready once and is about to leave
C4_Witness ==
    \E t \in CheckThreads :
        chk[t].st = "pop" /\ chk[t].exit = "stable" /\ chk[t].calls = 1

\* the last two samples of a check are equal and non-zero
TwoEqualSamples(h) ==
    Len(h) >= 2 /\ h[Len(h)] = h[Len(h) - 1] /\ h[Len(h)] > 0

\* C5: a check declares the file stable exactly when its last two samples,
\* taken stability_check_seconds apart, are equal and greater than zero;
\* never on the first sample, never for a size that stays 0.
C5_StableIffTwoEqualSamples ==
    \A t \in CheckThreads :
        /\ chk[t].exit = "stable" <=> TwoEqualSamples(chk[t].hist)
        /\ chk[t].st # "free" =>
               chk[t].elapsed = CheckSeconds *
                   (IF chk[t].exit = "stable" THEN Len(chk[t].hist) - 1
                                               ELSE Len(chk[t].hist))

\* a file that was empty, then grew, is declared stable on its third sample
C5_Witness ==
    \E t \in CheckThreads :
        /\ chk[t].exit = "stable"
        /\ Len(chk[t].hist) = 3
        /\ chk[t].hist[1] = 0

\* every sample of the check differs from the one before
KeepsChanging(h) == \A i \in 2..Len(h) : h[i] # h[i - 1]

\* C6: a check whose file changes size between every two consecutive polls
\* never declares it stable and never calls process_file for it.
C6_ChangingFileNeverReady ==
    \A t \in CheckThreads :
        (chk[t].st # "free" /\ KeepsChanging(chk[t].hist)) =>
            /\ chk[t].exit # "stable"
            /\ chk[t].calls = 0
            /\ ~InProgress(t)

\* a check that saw a different size at every poll has timed out
C6_Witness ==
    \E t \in CheckThreads :
        /\ chk[t].exit = "timeout"
        /\ Len(chk[t].hist) = StabilityTimeout + 1
        /\ KeepsChanging(chk[t].hist)

\* C7: a path leaves the pending set on every exit of its check (a path is
\* pending exactly while a check thread is alive for it), and _handle_file
\* for a matching path that is not pending starts a fresh check.
C7_PendingClearedOnExit ==
    [][/\ \A p \in Paths : IsPending(p)' <=> (ChecksOf(p))' # {}
       /\ (disp.pc = "handle" /\ disp'.pc = "idle"
             /\ ~IsPending(disp.path)
             /\ (\E i \in 1..Len(FilePatterns) :
                    FnMatch(Lower(FileName(disp.path)), Lower(FilePatterns[i])))
             /\ (\A i \in 1..Len(IgnorePatterns) :
                    ~FnMatch(Lower(FileName(disp.path)), Lower(IgnorePatterns[i]))))
          => \E t \in CheckThreads :
                /\ chk[t].st = "free"
                /\ chk'[t] = [FreeCheck EXCEPT !.st = "poll", !.path = disp.path]
                /\ <<disp.path, t>> \in pending'
      ]_vars

\* a fresh check polls a path whose earlier check ended in a failed run
C7_Witness ==
    \E t \in CheckThreads :
        chk[t].st = "poll" /\ FailureCount(chk[t].path) > 0

\* C8: a check is alive only for a file whose lower-cased name matches a
\* lower-cased file pattern and no lower-cased ignore pattern.
C8_CheckOnlyForMatchingNames ==
    \A t \in CheckThreads :
        chk[t].st # "free" =>
            /\ \E i \in 1..Len(FilePatterns) :
                   FnMatch(Lower(FileName(chk[t].path)), Lower(FilePatterns[i]))
            /\ \A i \in 1..Len(IgnorePatterns) :
                   ~FnMatch(Lower(FileName(chk[t].path)), Lower(IgnorePatterns[i]))

\* a check runs for d/a.P while _handle_file has B.p, which matches both an
\* include and an ignore pattern
C8_Witness ==
    /\ disp.pc = "handle"
    /\ disp.path = PathB
    /\ ChecksOf(PathA) # {}

\* the step is thread c entering process_file
Entering(c) ==
    /\ Invoking(c)
    /\ \/ pf'[c] # pf[c]
       \/ IF c \in CheckThreads THEN chk'[c] # chk[c]
          ELSE IF c = BacklogThread THEN backlog' # backlog
          ELSE IF c = RetryThread THEN retry' # retry
          ELSE once' # once

\* C9: once a path has failed retry_count times, a process_file call for it
\* returns False at once, with no script run and the failure map, the
\* counters and the files unchanged; a reset clears every count, and a call
\* for an existing, not excluded path with fewer failures enters the pipeline.
C9_SkipUntilReset ==
    [][/\ \A c \in Callers :
             Entering(c) =>
                IF FailureCount(CallPath(c)) >= RetryCount
                THEN /\ pf'[c].pc = "idle" /\ pf'[c].ret = "skipped"
                     /\ UNCHANGED <<failed_files, files_processed,
                                    active_processing, fsize, archived>>
                ELSE (Exists(CallPath(c)) /\ ~IsGloballyExcluded(CallPath(c)))
                         => pf'[c].pc = "filter"
       /\ (retry.ui = "collected" /\ retry'.ui = "idle")
             => \A p \in Paths : FailureCount(p)' = 0
      ]_vars

\* a call for the path was skipped, and after the reset the retry thread
\* runs its scripts again
C9_Witness ==
    /\ pf[RetryThread].pc = "run"
    /\ \E c \in Callers \ {RetryThread} :
          pf[c].ret = "skipped" /\ pf[c].pc = "idle"

\* C10: no path's failure count ever exceeds retry_count.
C10_FailuresCapped == \A p \in Paths : FailureCount(p) <= RetryCount

\* the relative path matches a configured global-exclude pattern or the
\* built-in "_Archived/*"
MatchesGlobalExclude(p) ==
    \/ \E i \in 1..Len(UserGlobalExcludes) : FnMatch(p, UserGlobalExcludes[i])
    \/ FnMatch(p, ArchivedPattern)

\* C11: a process_file call for a path that matches a global-exclude pattern
\* returns False in the step it is made, with no script executed and with
\* failed_files, files_processed, active_processing and the files unchanged.
C11_GlobalExcludeShortCircuits ==
    [][\A c \in Callers :
          (Entering(c) /\ MatchesGlobalExclude(CallPath(c))) =>
              /\ pf'[c].pc = "idle"
              /\ pf'[c].ret \in {"false", "skipped"}
              /\ pf'[c].ran = << >>
              /\ UNCHANGED <<failed_files, files_processed, active_processing,
                             fsize, archived>>
      ]_vars

\* the stability callback for tmp/D.p, which exists and matches "tmp/*", has
\* returned False
C11_Witness ==
    \E t \in CheckThreads :
        /\ chk[t].path = PathD
        /\ chk[t].st = "pop"
        /\ chk[t].calls = 1
        /\ pf[t].ret = "false"
        /\ Exists(PathD)

\* some pattern of the list matches the path
AnyMatch(path, patterns) ==
    \E i \in 1..Len(patterns) : FnMatch(path, patterns[i])

\* C12: _should_run_script returns True exactly when the script has no
\* include and no exclude patterns, or no exclude pattern matches the path
\* and the include list is empty or some include pattern matches; a path
\* that matches an exclude pattern is never run, and one more exclude pattern
\* that does not match the path leaves the result as it was.
C12_ShouldRunScript ==
    (probe.fn = "should_run_script" /\ probe.done) =>
        LET inc == probe.script.include_paths
            exc == probe.script.exclude_paths
            path == probe.relative_path
        IN  /\ probe.result <=>
                   \/ inc = << >> /\ exc = << >>
                   \/ /\ ~AnyMatch(path, exc)
                      /\ inc = << >> \/ AnyMatch(path, inc)
            /\ AnyMatch(path, exc) => ~probe.result
            /\ ~FnMatch(path, probe.extra) =>
                   (probe.result_extra <=> probe.result)

\* d/a.P was refused by a script that includes "d/*" and excludes "*.P",
\* and the pattern added to the excludes does not match it
C12_Witness ==
    /\ probe.fn = "should_run_script"
    /\ probe.done
    /\ probe.relative_path = PathA
    /\ probe.script.include_paths = << <<"d", "/", "*">> >>
    /\ probe.script.exclude_paths = << <<"*", ".", "P">> >>
    /\ ~FnMatch(probe.relative_path, probe.extra)
    /\ ~probe.result

\* the configured scripts that are enabled and pass the path filters for p,
\* among the first k of the configuration
PassingBefore(p, k) ==
    {j \in 1..(k - 1) : Scripts[j].enabled /\ ShouldRunScript(Scripts[j], p)}

\* C13: the scripts a process_file call has executed are, in this order, the
\* first enabled scripts of the configuration that pass the path filters,
\* and only the last executed script can have failed: after a failure no
\* later script of the run is executed, and the archive step is reached
\* only after every filtered script has succeeded.
C13_ScriptsInOrderStopAtFailure ==
    \A c \in Callers :
        LET r == pf[c].ran IN
        /\ \A i \in 1..Len(r) :
               \E k \in 1..Len(Scripts) :
                   /\ Scripts[k].name = r[i].name
                   /\ Scripts[k].enabled
                   /\ ShouldRunScript(Scripts[k], pf[c].path)
                   /\ Cardinality(PassingBefore(pf[c].path, k)) = i - 1
        /\ \A i \in 1..(Len(r) - 1) : r[i].success
        /\ pf[c].pc \in {"record", "record_w"} => ~r[Len(r)].success
        /\ pf[c].pc \in {"archive", "count"} =>
               /\ r[Len(r)].success
               /\ Len(r) = Cardinality(PassingBefore(pf[c].path, Len(Scripts) + 1))

\* the first of the two scripts of d/a.P has failed, and the run is in
\* _record_failure with the second script not executed
C13_Witness ==
    \E c \in Callers :
        /\ pf[c].pc = "record"
        /\ pf[c].path = PathA
        /\ pf[c].ran = << [name |-> "s1", success |-> FALSE] >>

\* the step is the return of the process_file call of thread c with result r
Returns(c, r) == pf[c].pc # "idle" /\ pf'[c].pc = "idle" /\ pf'[c].ret = r

\* C14: when every filtered script of a run has succeeded, process_file
\* archives the file, removes the path's entry from failed_files, adds
\* exactly one to files_processed and returns True; files_processed changes
\* in no other step.
C14_SuccessBookkeeping ==
    [][/\ \A c \in Callers :
             /\ (pf[c].pc = "archive" /\ pf'[c] # pf[c]) =>
                    /\ pf'[c].pc = "count"
                    /\ ~Exists(pf[c].path)'
                    /\ archived'[pf[c].path] = archived[pf[c].path] + 1
                    /\ failed_files'[pf[c].path] = NoEntry
             /\ (pf[c].pc = "count" /\ pf'[c] # pf[c]) =>
                    /\ Returns(c, "true")
                    /\ files_processed' = files_processed + 1
       /\ files_processed' # files_processed =>
              \E c \in Callers : pf[c].pc = "count" /\ Returns(c, "true")
      ]_vars

\* C15: when no enabled script passes the path filters for the file,
\* process_file returns False with no script executed, failed_files and
\* files_processed unchanged and the file left where it is.
C15_NoScriptLeavesFileAlone ==
    [][\A c \in Callers :
          (/\ pf[c].pc = "filter"
           /\ pf'[c] # pf[c]
           /\ PassingBefore(pf[c].path, Len(Scripts) + 1) = {}) =>
              /\ Returns(c, "false")
              /\ pf[c].ran = << >>
              /\ pf'[c].ran = << >>
              /\ UNCHANGED <<failed_files, files_processed, fsize, archived>>
      ]_vars

\* run_once found n/n.p alone, which every script's filters refuse: the call
\* returned False, the file is still there and has no failure entry
C15_Witness ==
    /\ once.pc = "exited"
    /\ once.total = 1
    /\ fsize[PathA] = NotYet
    /\ Exists(PathN)
    /\ pf[OnceThread].ret = "false"
    /\ failed_files[PathN] = NoEntry

\* C16: active_processing is never negative and always equals the number of
\* process_file calls that have passed the global-exclude check and have
\* not yet returned or raised.
C16_ActiveProcessingCounts ==
    /\ active_processing >= 0
    /\ active_processing = Cardinality({c \in Callers : InProgress(c)})

\* a call has left process_file by the RuntimeError of a full archive while
\* another call is still in progress
C16_Witness ==
    \E c, d \in Callers :
        /\ pf[c].pc = "idle"
        /\ pf[c].ret = "raised"
        /\ InProgress(d)
        /\ active_processing = 1

\* C17: no update of files_processed or of a failure count is lost under
\* concurrent process_file calls, as it is when every read-modify-write is
\* done under a lock: each call that returns True leaves files_processed one
\* higher than it found it, and each recorded failure leaves the path's
\* count one higher than it was (so that the counter equals the number of
\* calls that returned True, and a count the number of failures recorded
\* since it was cleared).
C17_NoLostUpdate ==
    [][\A c \in Callers :
          /\ Returns(c, "true") => files_processed' = files_processed + 1
          /\ (pf[c].pc = "record_w" /\ pf'[c] # pf[c]) =>
                 failed_files'[pf[c].path] = FailureCount(pf[c].path) + 1
      ]_vars

\* the stem of each file name that is tried, written out
ExpectedStem(filename) ==
    CASE filename = <<"a", ".", "P">> -> <<"a">>
      [] filename = <<"a">> -> <<"a">>
      [] filename = <<".", "p">> -> <<".", "p">>

DigitValue(ch) ==
    CASE ch = "0" -> 0 [] ch = "1" -> 1 [] ch = "2" -> 2 [] ch = "3" -> 3
      [] ch = "4" -> 4 [] ch = "5" -> 5 [] ch = "6" -> 6 [] ch = "7" -> 7
      [] ch = "8" -> 8 [] ch = "9" -> 9

\* the names <stem>-NNN<ext> of a file name, each with the number NNN
SuffixedNames(filename) ==
    LET stem == ExpectedStem(filename)
        ext == SubSeq(filename, Len(stem) + 1, Len(filename))
    IN  {[name |-> stem \o <<"-", a, b, c>> \o ext,
          number |-> 100 * DigitValue(a) + 10 * DigitValue(b) + DigitValue(c)]
            : a, b, c \in DigitChars}

\* C18: _get_unique_archive_path returns the plain file name when it is not
\* taken; otherwise the name <stem>-NNN<ext>, NNN of three digits before the
\* extension, with the least number not taken (so -k when the plain name
\* and -000 .. -(k-1) are taken); it raises only when all 1000 are taken.
C18_UniqueArchivePath ==
    (probe.fn = "get_unique_archive_path" /\ probe.done) =>
        LET free == {n \in SuffixedNames(probe.filename) :
                        n.name \notin probe.existing}
        IN  IF probe.filename \notin probe.existing
            THEN probe.result = probe.filename
            ELSE IF free = {} THEN probe.result = RuntimeError
            ELSE \E n \in free :
                    /\ probe.result = n.name
                    /\ \A m \in free : n.number <= m.number

\* with a.P, a-000.P and a-001.P taken the result is a-002.P
C18_Witness ==
    /\ probe.fn = "get_unique_archive_path"
    /\ probe.done
    /\ probe.existing = {<<"a", ".", "P">>,
                         <<"a", "-", "0", "0", "0", ".", "P">>,
                         <<"a", "-", "0", "0", "1", ".", "P">>}
    /\ probe.result = <<"a", "-", "0", "0", "2", ".", "P">>

\* C19: the error of an archive with no free name left is contained by
\* process_file: no call raises, and neither the one-shot run nor the
\* thread of a foreground caller is ended by it.
C19_ExhaustionContained ==
    /\ \A c \in Callers : pf[c].ret # "raised"
    /\ once.pc # "crashed"
    /\ backlog.pc # "dead"

\* C20: at most one live process has had acquire_lock return True.
C20_OneLockHolder ==
    Cardinality({i \in Procs : procs[i].pc = "held"}) <= 1

\* C21: acquire_lock removes LOCK_FILE only after a first attempt that failed
\* and found the pid of no running process, tries once more after it, and
\* never removes the file on which a running process holds the lock.
C21_RemovesOnlyStaleLock ==
    [][\A i \in Procs :
          (procs[i].pc = "unlink" /\ procs'[i].pc = "open") =>
              /\ procs[i].attempt = 1
              /\ procs'[i].attempt = 2
              /\ ~IsProcessRunning(procs[i].pid)
              /\ lockfile.entry # NoFile =>
                     LET holder == lockfile.holder[lockfile.entry]
                     IN  holder = NoFile \/ ~IsProcessRunning(holder)]_vars

\* C22: while a process holds the lock, the file it locked holds its pid,
\* whatever other processes have tried since.
C22_LockFileHoldsHolderPid ==
    \A i \in Procs :
        procs[i].pc = "held" => lockfile.content[procs[i].fd] = i

\* C23: the first SIGINT or SIGTERM makes the handler stop the watcher and
\* then exit; a signal that arrives once shutdown is requested does nothing;
\* the handler runs the stop sequence at most once.
C23_SignalStopsOnce ==
    /\ [](shut.sequences <= 1 /\ shut.stops <= 1)
    /\ [](shut.pc = "exited" => ~observing /\ shut.stops = 1)
    /\ [][(shut.requested /\ shut'.signals # shut.signals) =>
              /\ observing' = observing
              /\ shut' = [shut EXCEPT !.signals = @ + 1, !.ignored = @ + 1]]_vars
    /\ (shut.signals > 0 ~> shut.pc = "exited")

\* the process has exited on a signal sent while the watcher was observing,
\* and a second signal arrived during the shutdown
C23_Witness ==
    /\ shut.pc = "exited"
    /\ shut.ignored > 0
    /\ backlog.pc # "off"

\* C24: once FileWatcher.stop has been called, no stability check calls
\* on_file_ready, so no pipeline run starts for the stopped watcher.
C24_NoCallbackAfterStop ==
    [][shut.stops > 0 =>
           \A t \in CheckThreads : chk'[t].calls <= chk[t].calls]_vars

ListedFault(type, fault) ==
    \/ fault \in {"unknown_variable", "script_missing", "timeout", "nonzero"}
    \/ type = "command" /\ fault \in {"parse_error", "cwd_missing"}

\* C26: a script whose file is missing, whose working directory does not
\* exist, whose command string cannot be tokenized, whose arguments name an
\* unknown variable, that times out or that exits non-zero gives a failed
\* result and no exception; process_file then adds exactly one to the failure
\* count of the path and returns False.
C26_ScriptFaultIsRecordedFailure ==
    /\ \A type \in ScriptTypes, fault \in Faults :
           ListedFault(type, fault) => Execute(type, fault) = "failed"
    /\ [][\A c \in Callers :
            /\ (pf[c].pc = "run" /\ pf'[c] # pf[c]) =>
                   /\ pf'[c].ret # "raised"
                   /\ ListedFault(ScriptsFor[pf[c].path][pf[c].idx].type,
                                  pf'[c].fault) => pf'[c].pc = "record"
            /\ pf[c].pc \in {"filter", "run", "record"} =>
                   failed_files' = failed_files
            /\ (pf[c].pc = "record_w" /\ pf'[c] # pf[c]) =>
                   /\ pf'[c] = Returned("false")
                   /\ failed_files' =
                          [failed_files EXCEPT
                              ![pf[c].path] = FailureCount(pf[c].path) + 1]]_vars

\* the second script of d/a.P names an unknown variable, after the first one
\* succeeded, and the failure is being recorded
C26_Witness ==
    /\ pf[OnceThread].pc = "record_w"
    /\ pf[OnceThread].path = PathA
    /\ pf[OnceThread].fault = "unknown_variable"
    /\ Len(pf[OnceThread].ran) = 2

\* how often x occurs in the list l
RECURSIVE Occurrences(_, _)
Occurrences(l, x) ==
    IF l = << >> THEN 0
    ELSE (IF Head(l) = x THEN 1 ELSE 0) + Occurrences(Tail(l), x)

\* C27: a new PipelineManager's global_exclude_paths is the user's list,
\* followed by "_Archived/*" exactly when the user's list does not hold that
\* pattern; no second occurrence is added, and the caller's list is left as
\* it was.
C27_ArchivedExcludedOnce ==
    (probe.fn = "new_pipeline_manager" /\ probe.done) =>
        LET user == probe.argument
            paths == probe.result.global_exclude_paths
        IN  /\ IF Contains(user, ArchivedPattern) THEN paths = user
               ELSE paths = user \o <<ArchivedPattern>>
            /\ Occurrences(paths, ArchivedPattern)
                   = (IF Contains(user, ArchivedPattern)
                      THEN Occurrences(user, ArchivedPattern) ELSE 1)
            /\ probe.result.argument = probe.argument

\* a manager was built from a list of two patterns, the second of which is
\* "_Archived/*"
C27_Witness ==
    /\ probe.fn = "new_pipeline_manager"
    /\ probe.done
    /\ probe.given
    /\ Len(probe.argument) = 2
    /\ probe.argument[2] = ArchivedPattern
    /\ probe.argument[1] # ArchivedPattern

\* some pattern of the list matches the name when letter case is ignored
AnyMatchIgnoringCase(name, patterns) ==
    AnyMatch(Lower(name), [i \in 1..Len(patterns) |-> Lower(patterns[i])])

\* C28: for every file name and WatchConfig, scan_existing_files selects the
\* file exactly when _matches_patterns accepts it: a file whose name matches
\* an ignore pattern, letter case ignored, is rejected by both, and any other
\* file is accepted by both exactly when its name matches an include pattern,
\* letter case ignored.
C28_ScanFiltersLikeHandler ==
    (probe.fn = "matches_patterns" /\ probe.done) =>
        LET name == FileName(probe.file_path)
            expected ==
                /\ ~AnyMatchIgnoringCase(name, probe.ignore_patterns)
                /\ AnyMatchIgnoringCase(name, probe.file_patterns)
        IN  probe.scan = probe.live /\ probe.live = expected

\* a file in a subfolder whose name matches an include pattern only when
\* letter case is ignored, selected by the scan and accepted by the handler
C28_Witness ==
    /\ probe.fn = "matches_patterns"
    /\ probe.done
    /\ probe.file_path = <<"d", "/", "B", ".", "p">>
    /\ probe.file_patterns = << <<"*", ".", "P">> >>
    /\ probe.ignore_patterns = << <<"A", ".", "?">> >>
    /\ probe.scan
    /\ probe.live

\* the elements of a list
Elements(l) == {l[i] : i \in 1..Len(l)}

\* C29: Retry clears the failure tracking and hands each failed file that
\* still exists to process_file, once; no failure entry is cleared without
\* its file being handed over.
C29_RetryResubmitsWhatItClears ==
    [][(retry.ui = "collected" /\ retry'.pc = "loop") =>
           /\ \A p \in Paths : failed_files'[p] = NoEntry
           /\ \A i, j \in 1..Len(retry'.todo) :
                  retry'.todo[i] = retry'.todo[j] => i = j
           /\ \A p \in Paths :
                  failed_files[p] # NoEntry => p \in Elements(retry'.todo)]_vars

\* C30: for a file below the base folder, from_file gives the first segment
\* of the relative path as database, the last as filename and the segments
\* between them, joined by "/", as group_path; group_path is empty for a
\* file directly in the database folder, database is empty for a file
\* directly in the base folder, and with three or more segments
\* database/group_path/filename is the relative path.
C30_FileVariables ==
    (probe.fn = "from_file" /\ probe.done) =>
        LET segments == probe.segments
            n == Len(segments)
            v == probe.result
        IN  /\ v.filename = segments[n]
            /\ v.database = (IF n >= 2 THEN segments[1] ELSE << >>)
            /\ v.group_path = (IF n >= 3 THEN Join(<<"/">>, SubSeq(segments, 2, n - 1))
                               ELSE << >>)
            /\ n >= 3 => v.database \o <<"/">> \o v.group_path \o <<"/">>
                             \o v.filename = v.relative_path

\* the variables of a file two folders below its database folder
C30_Witness ==
    /\ probe.fn = "from_file"
    /\ probe.done
    /\ Len(probe.segments) = 4
    /\ probe.result.database = <<"M", "y">>
    /\ probe.result.group_path = <<"g", "/", "M", "y">>
    /\ probe.result.filename = <<"a", ".", "P">>

\* what the watcher v holds: the state of the PipelineManager and of the
\* StabilityCheckHandler that its references lead to
UnitView(v) ==
    [failed_files |-> heap.pipeline[PipelineOf(v)].failed_files,
     files_processed |-> heap.pipeline[PipelineOf(v)].files_processed,
     active_processing |-> heap.pipeline[PipelineOf(v)].active_processing,
     pending |-> heap.handler[HandlerOf(v)].pending]

UnitStep(u) ==
    \/ UnitHandleFile(u)
    \/ UnitCheckExit(u)
    \/ UnitProcessEnter(u)
    \/ UnitProcessExit(u)
    \/ UnitPop(u)
    \/ UnitReset(u)

\* C31: a step of a stability check, of a process_file call or of a failure
\* reset on one watcher leaves the failed_files, files_processed,
\* active_processing and pending set of every other watcher as they are
C31_WatchersShareNoState ==
    [][\A u \in Units : \A v \in Units \ {u} :
          UnitStep(u) => UnitView(v)' = UnitView(v)]_vars

\* C31 witness: the first watcher is inside process_file with its file
\* pending and a failure recorded, after the second has processed its file
C31_Witness ==
    /\ heap.thread[1] = "call"
    /\ heap.pipeline[PipelineOf(1)].active_processing = 1
    /\ 1 \in heap.handler[HandlerOf(1)].pending
    /\ heap.pipeline[PipelineOf(1)].failed_files[1] = 1
    /\ heap.pipeline[PipelineOf(1)].files_processed = 0
    /\ heap.pipeline[PipelineOf(2)].failed_files[1] = NoEntry
    /\ heap.pipeline[PipelineOf(2)].files_processed = 1

\* C32: _check_script_filters returns RUN exactly when _should_run_script
\* returns True for the same script and path, EXCLUDED exactly when some
\* exclude pattern of the script matches the path, and SKIPPED otherwise
C32_SimulationFiltersLikePipeline ==
    (probe.fn = "check_script_filters" /\ probe.done) =>
        /\ probe.result \in {"run", "excluded", "skipped"}
        /\ probe.result = "run" <=> probe.pipeline
        /\ probe.result = "excluded" <=>
               AnyMatch(probe.path, probe.script.exclude_paths)
        /\ probe.result = "skipped" <=>
               /\ ~probe.pipeline
               /\ ~AnyMatch(probe.path, probe.script.exclude_paths)

\* C32 witness: d/a.P with a script that includes "d/*" and excludes "*.P"
\* gave EXCLUDED, and the pipeline would not run the script
C32_Witness ==
    /\ probe.fn = "check_script_filters"
    /\ probe.done
    /\ probe.path = PathA
    /\ probe.script.include_paths = << <<"d", "/", "*">> >>
    /\ probe.script.exclude_paths = << <<"*", ".", "P">> >>
    /\ probe.result = "excluded"
    /\ ~probe.pipeline

\* _record_failure, lines 302-310: with the count it finds in the map after
\* its assignment, the call notifies "Import Failed Permanently" when no
\* attempt remains
NotifiesPermanentFailure(count) == RetryCount - count <= 0

\* C33: the "permanently failed" signal is surfaced only by the failure that
\* brings the count of the path to retry_count: the count was below
\* retry_count before the failure was recorded, so that no second signal
\* follows until the failure tracking of the path is reset, also when calls
\* of process_file for the path run concurrently
C33_PermanentFailureOnce ==
    [][\A c \in Callers :
          (/\ pf[c].pc = "record_w"
           /\ pf'[c] # pf[c]
           /\ NotifiesPermanentFailure(failed_files'[pf[c].path]))
             => /\ FailureCount(pf[c].path) < RetryCount
                /\ failed_files'[pf[c].path] = RetryCount
      ]_vars

\* C35: in the one-shot mode a discovered file that process_file skips as
\* globally excluded is no failed file: when every other discovered file was
\* processed with success, run_once returns 0
C35_GlobalSkipIsNoFailure ==
    (/\ once.pc = "exited"
     /\ once.success_count + Cardinality({p \in once.files : GloballyExcluded[p]})
            = once.total)
        => once.code = 0

\* C34: evaluate_path reports globally_excluded = True exactly when the
\* PipelineManager built from the same watcher configuration skips the path
\* as globally excluded, also for the paths under _Archived/
C34_SimulationExcludesLikePipeline ==
    (probe.fn = "evaluate_path" /\ probe.done) =>
        (probe.globally_excluded <=> probe.pipeline)

\* C36: within one process_file call the global-exclude check and the
\* filters of the scripts are given the same relative-path string, and for
\* a file outside the base folder that string is the bare file name
C36_OneRelativePath ==
    (probe.fn = "process_file" /\ probe.done) =>
        /\ probe.global_check = probe.script_check
        /\ probe.file_path = OutsidePath =>
               probe.script_check = FileName(probe.file_path)

\* C37: archiving never overwrites or removes a file of the archive: a file
\* of the archive directory stays there under its name with its content,
\* every file that was put at the path is at the path or in the archive,
\* and no file is at both places
C37_ArchiveKeepsFiles ==
    /\ [][\A e \in arch.dir : e \in arch'.dir]_vars
    /\ [](\A k \in 1..arch.made :
             \/ arch.src = k
             \/ \E e \in arch.dir : e[2] = k)
    /\ [](\A e \in arch.dir : e[2] # arch.src)

\* the path lies under the _Archived folder of the base folder
UnderArchived(p) ==
    /\ Len(p) > 10
    /\ SubSeq(p, 1, 10) = <<"_", "A", "r", "c", "h", "i", "v", "e", "d", "/">>

\* C38: no script is executed for a file under _Archived/ of the watcher's
\* own base folder: no process_file call gets past the global-exclude check
\* with such a path, although the observer reports the archived file and a
\* stability check is started for it
C38_ArchivedFilesNeverRun ==
    \A c \in Callers :
        /\ ~UnderArchived(pf[c].path)
        /\ (pf[c].pc = "idle" /\ c \in CheckThreads /\ UnderArchived(chk[c].path))
              => pf[c].ret \in {"none", "false"}

\* C38 witness: e.p was processed and moved to _Archived/e.p; the check
\* started for the archived file found it stable and called process_file,
\* which returned False without a script
C38_Witness ==
    \E t \in CheckThreads :
        /\ chk[t].path = PathR
        /\ chk[t].exit = "stable"
        /\ chk[t].st = "pop"
        /\ chk[t].calls = 1
        /\ pf[t].ret = "false"
        /\ Exists(PathR)
        /\ ~Exists(PathE)
        /\ files_processed = 1

\* the stability-check threads that are in on_file_ready for the path
RunsOf(p) == {t \in CheckThreads : chk[t].st = "call" /\ chk[t].path = p}

\* C39: on_file_ready runs while its path is in the pending set, which is
\* cleared only when the callback has returned or raised; an event for the
\* path that arrives during the run starts no second check (_handle_file
\* returns at the pending test), and at most one pipeline run that a check
\* started is in progress for a path
C39_PendingDuringCallback ==
    /\ [](\A p \in Paths :
             /\ RunsOf(p) # {} => IsPending(p)
             /\ Cardinality(RunsOf(p)) <= 1
             /\ \A t \in CheckThreads :
                    (InProgress(t) /\ pf[t].path = p) => t \in RunsOf(p))
    /\ [][\A p \in Paths :
             /\ (RunsOf(p) # {} /\ disp.pc = "handle" /\ disp.path = p
                     /\ disp'.pc = "idle")
                  => UNCHANGED <<chk, pending>>
             /\ (IsPending(p) /\ ~IsPending(p)')
                  => \E t \in CheckThreads : chk[t].path = p /\ chk[t].st = "pop"
         ]_vars

\* C39 witness: a check thread runs the script of its path, which is
\* pending, and a created event for the path is in _handle_file
C39_Witness ==
    \E t \in CheckThreads :
        /\ chk[t].st = "call"
        /\ pf[t].pc = "run"
        /\ pf[t].path = chk[t].path
        /\ <<chk[t].path, t>> \in pending
        /\ disp.pc = "handle"
        /\ disp.path = chk[t].path

\* the observer thread takes up a new event
NewEvent == disp.pc = "idle" /\ disp'.pc = "handle"

\* C40: every stability check terminates: when on_file_ready returns, a
\* started check reaches one of the exits of its loop and ends, its path
\* leaves the pending set, and the pending set is empty from some time on
\* when the filesystem events stop
C40_ChecksTerminate ==
    /\ \A t \in CheckThreads :
          /\ chk[t].st = "poll" ~> chk[t].exit \in {"stable", "timeout", "gone", "staterr"}
          /\ chk[t].st # "free" ~> chk[t].st = "free"
    /\ \A p \in Paths : IsPending(p) ~> ~IsPending(p)
    /\ <>[][~NewEvent]_vars => <>[](pending = {})

\* C40 witness: a check has given up at the timeout and its path is still
\* in the pending set
C40_Witness ==
    \E t \in CheckThreads :
        /\ chk[t].st = "pop"
        /\ chk[t].exit = "timeout"
        /\ <<chk[t].path, t>> \in pending

====
